---------------------------- MODULE Spec2Model ----------------------------
(* A model of the codx VS Code extension (src/src/extension.ts): the       *)
(* model registry, activation, the debounce wrapper, the diagnostics       *)
(* pipeline (prompt dispatch, JSON extraction, issue mapping, replacement  *)
(* of a document's diagnostic set) and the compare-models client lookup.   *)
EXTENDS Integers, Sequences, FiniteSets, TLC

(***************************************************************************)
(* Bounds of the model.                                                    *)
(***************************************************************************)
\* how many entries of the AVAILABLE_MODELS table are modelled (a prefix)
NumModels == 3
\* the longest document text, in lines
MaxLines == 2
\* the longest line, in characters
MaxLineLen == 1
\* the longest issue list drawn as an input of the mapper
MaxIssues == 1
\* the largest line number a model response reports
MaxReportedLine == 3
\* how many document edits the environment makes in one session
MaxEdits == 2
\* how many clock steps the environment lets pass in one session
MaxTicks == 4

(***************************************************************************)
(* Program constants.                                                      *)
(***************************************************************************)
\* debounce(..., 500): the suggestion trigger's wait, in ms
SuggestWait == 500
\* debounce(..., 1000): the diagnostics trigger's wait, in ms
DiagnosticsWait == 1000
\* the clock advances in steps of the shorter wait
TimeStep == SuggestWait

\* a value that is absent (JavaScript's undefined) where a string is expected
Undefined == "<undefined>"

Max(a, b) == IF a >= b THEN a ELSE b

RECURSIVE SeqsUpTo(_, _)
\* all sequences over S of length 0..n
SeqsUpTo(S, n) ==
    IF n = 0 THEN {<<>>}
    ELSE LET shorter == SeqsUpTo(S, n - 1)
         IN  shorter \cup {Append(s, x) : s \in {t \in shorter : Len(t) = n - 1}, x \in S}

(***************************************************************************)
(* Documents.  A text is the sequence of its lines' lengths; a document    *)
(* always has at least one line.                                           *)
(***************************************************************************)
Docs == {"docA", "docB"}

AllTexts == SeqsUpTo(0..MaxLineLen, MaxLines) \ {<<>>}

\* the texts the editing environment switches between: the shortest and the
\* longest
SampleText(n) == [i \in 1..n |-> i % (MaxLineLen + 1)]
Texts == {SampleText(1), SampleText(MaxLines)}

\* the text each document holds when the session starts
InitialText(d) == IF d = "docA" THEN SampleText(1) ELSE SampleText(MaxLines)

\* document.lineCount
lineCount(text) == Len(text)

(***************************************************************************)
(* Issues as the model returns them: any of the three fields may be        *)
(* missing.  line is <<>> when missing and <<n>> otherwise.                *)
(***************************************************************************)
ReportedLines == {<<>>} \cup {<<n>> : n \in -1..MaxReportedLine}
Messages == {Undefined, "", "unused var"}
Severities == {Undefined, "error", "warning", "Error"}
Issues == [line : ReportedLines, message : Messages, severity : Severities]

\* issue.line || 1 : a missing line and the number 0 are falsy
LineOrOne(issue) ==
    IF issue.line = <<>> \/ issue.line = <<0>> THEN 1 ELSE issue.line[1]

\* the mapped line without the clamp to 0
MappedLineUnclamped(issue) == LineOrOne(issue) - 1

\* Math.max(0, (issue.line || 1) - 1)
MappedLine(issue) == Max(0, LineOrOne(issue) - 1)

\* document.lineAt(line) throws when the line is not a line of the document
lineAtThrows(text, line) == line < 0 \/ line >= lineCount(text)

\* the severity compared without regard to case
MappedSeverityLoose(issue) ==
    IF issue.severity \in {"error", "Error"} THEN "Error" ELSE "Warning"

\* issue.severity === 'error' ? Error : Warning
MappedSeverity(issue) == IF issue.severity = "error" THEN "Error" ELSE "Warning"

\* issue.message || 'Unknown issue' : a missing message and "" are falsy
MappedMessage(issue) ==
    IF issue.message = Undefined \/ issue.message = "" THEN "Unknown issue"
    ELSE issue.message

\* new vscode.Diagnostic(new vscode.Range(line, 0, line, lineLength), message, severity)
MapIssue(issue, text) ==
    LET line == MappedLine(issue)
    IN  [startLine |-> line, startCol |-> 0,
         endLine |-> line, endCol |-> text[line + 1],
         message |-> MappedMessage(issue), severity |-> MappedSeverity(issue)]

\* issues.map(...): throws when lineAt throws for one of the issues
MapIssues(issues, text) ==
    IF \E i \in 1..Len(issues) : lineAtThrows(text, MappedLine(issues[i]))
    THEN [threw |-> TRUE, diagnostics |-> <<>>]
    ELSE [threw |-> FALSE,
          diagnostics |-> [i \in 1..Len(issues) |-> MapIssue(issues[i], text)]]


(***************************************************************************)
(* Model text as a sequence of tokens.  A token is "fence" (a markdown     *)
(* code fence), "json" (the fence's language tag), "ws" (white space),     *)
(* "lb" and "rb" (square brackets), "comma", "word" (prose without         *)
(* brackets) or "obj" (one JSON object, carrying an issue).                *)
(***************************************************************************)
NoIssue == [line |-> <<>>, message |-> Undefined, severity |-> Undefined]
Tok(t) == [t |-> t, v |-> NoIssue]
Obj(issue) == [t |-> "obj", v |-> issue]

\* the positions of the tokens of kind t
Positions(toks, t) == {i \in 1..Len(toks) : toks[i].t = t}

Min(S) == CHOOSE x \in S : \A y \in S : x <= y

\* responseContent.match(/(?:json)?\s*(\[[\s\S]*?\])\s*/) || responseContent.match(/(\[[\s\S]*?\])/):
\* the lazy group runs from the first "[" that has a "]" after it to the first
\* such "]"; jsonMatch ? jsonMatch[1] : responseContent
ExtractJson(toks) ==
    LET opens == {i \in Positions(toks, "lb") :
                    \E j \in Positions(toks, "rb") : j > i}
    IN  IF opens = {} THEN toks
        ELSE LET i == Min(opens)
                 j == Min({k \in Positions(toks, "rb") : k > i})
             IN  SubSeq(toks, i, j)

\* the tokens that are not white space, in order
NoSpace(toks) == SelectSeq(toks, LAMBDA k : k.t # "ws")

\* JSON.parse: an array of objects, or a single object; anything else throws
JsonParse(toks) ==
    LET s == NoSpace(toks)
        n == Len(s)
        inner == SubSeq(s, 2, n - 1)
        m == Len(inner)
        elements == /\ m = 0 \/ m % 2 = 1
                    /\ \A i \in 1..m :
                         inner[i].t = (IF i % 2 = 1 THEN "obj" ELSE "comma")
    IN  IF n = 1 /\ s[1].t = "obj"
        THEN [ok |-> TRUE, isArray |-> FALSE, issues |-> <<>>]
        ELSE IF n >= 2 /\ s[1].t = "lb" /\ s[n].t = "rb" /\ elements
        THEN [ok |-> TRUE, isArray |-> TRUE,
              issues |-> [i \in 1..((m + 1) \div 2) |-> inner[2 * i - 1].v]]
        ELSE [ok |-> FALSE, isArray |-> FALSE, issues |-> <<>>]

\* the handler without the return of the inner catch: issues stays []
DiagnosticsOutcomeNoReturn(content, text) ==
    LET parsed == JsonParse(ExtractJson(content))
        mapped == MapIssues(parsed.issues, text)
    IN  IF ~parsed.ok THEN [kind |-> "set", diagnostics |-> <<>>]
        ELSE IF ~parsed.isArray \/ mapped.threw
        THEN [kind |-> "threw", diagnostics |-> <<>>]
        ELSE [kind |-> "set", diagnostics |-> mapped.diagnostics]

\* what the diagnostics handler does with a response text, given the
\* document's text at that time: "parseError" (inner catch, return),
\* "threw" (issues.map threw: outer catch), or "set" with the mapped list
DiagnosticsOutcome(content, text) ==
    LET parsed == JsonParse(ExtractJson(content))
        mapped == MapIssues(parsed.issues, text)
    IN  IF ~parsed.ok THEN [kind |-> "parseError", diagnostics |-> <<>>]
        ELSE IF ~parsed.isArray \/ mapped.threw
        THEN [kind |-> "threw", diagnostics |-> <<>>]
        ELSE [kind |-> "set", diagnostics |-> mapped.diagnostics]

(***************************************************************************)
(* The model registry.  A Map is modelled by the sequence of its keys in   *)
(* insertion order; the client of a model is identified by the model name. *)
(***************************************************************************)
AVAILABLE_MODELS ==
    << "codestral-2501", "codestral-latest", "mistral-large-latest",
       "mistral-small-latest", "open-mistral-7b", "open-mixtral-8x7b",
       "open-mixtral-8x22b" >>

\* the modelled prefix of the table
ModelTable == SubSeq(AVAILABLE_MODELS, 1, NumModels)

\* an identity that is in no table
RetiredModel == "mistral-medium"

Identities == {ModelTable[i] : i \in 1..Len(ModelTable)} \cup {RetiredModel}

\* the persisted selections a session starts with: none, a registered model
\* that is not the default, and an identity that is no longer registered
StoredSelections == {Undefined, ModelTable[2], RetiredModel}

\* Map.has(key)
MapHas(map, key) == \E i \in 1..Len(map) : map[i] = key

\* Map.get(key): the client of the key, or undefined
MapGet(map, key) == IF MapHas(map, key) THEN key ELSE Undefined

\* Map.values().next().value: the first value, or undefined
MapFirst(map) == IF Len(map) = 0 THEN Undefined ELSE map[1]

\* context.globalState.get('codx.selectedModel', 'codestral-2501')
GlobalStateGet(stored, default) == IF stored = Undefined THEN default ELSE stored

\* the saved model taken without the models.has check
InitialModelUnchecked(models, stored) == GlobalStateGet(stored, "codestral-2501")

\* const currentModel = models.has(savedModel) ? savedModel : 'codestral-2501'
InitialModel(models, stored) ==
    LET savedModel == GlobalStateGet(stored, "codestral-2501")
    IN  IF MapHas(models, savedModel) THEN savedModel ELSE "codestral-2501"

\* getCurrentClient without the || fallback
getCurrentClientNoFallback(currentModel, clients) ==
    LET found == MapGet(clients, currentModel)
    IN  IF found = Undefined
        THEN [threw |-> TRUE, client |-> Undefined]
        ELSE [threw |-> FALSE, client |-> found]

\* getCurrentClient(state)
getCurrentClient(currentModel, clients) ==
    LET found == MapGet(clients, currentModel)
        client == IF found # Undefined THEN found ELSE MapFirst(clients)
    IN  IF client = Undefined
        THEN [threw |-> TRUE, client |-> Undefined]
        ELSE [threw |-> FALSE, client |-> client]

\* compareModelsCommand's loop: state.clients.get(model.description!) and
\* if (!client) continue; the clients the requests go to, in selection order
compareClients(selected, clients) ==
    SelectSeq(selected, LAMBDA name : MapGet(clients, name) # Undefined)

(***************************************************************************)
(* Model responses to the diagnostics prompt: the request fails, or it     *)
(* returns a text.                                                         *)
(***************************************************************************)
RECURSIVE Elements(_)
\* the objects of an array, separated by commas
Elements(issues) ==
    IF Len(issues) = 0 THEN <<>>
    ELSE IF Len(issues) = 1 THEN <<Obj(issues[1])>>
    ELSE <<Obj(issues[1]), Tok("comma")>> \o Elements(Tail(issues))

\* a bare JSON array
Bare(issues) == <<Tok("lb")>> \o Elements(issues) \o <<Tok("rb")>>

\* a JSON array in a fenced block, with prose before and after the fence
Fenced(issues) ==
    <<Tok("word"), Tok("ws"), Tok("fence"), Tok("json"), Tok("ws")>>
        \o Bare(issues) \o <<Tok("ws"), Tok("fence"), Tok("ws"), Tok("word")>>

Failed == [failed |-> TRUE, content |-> <<>>]
Text(toks) == [failed |-> FALSE, content |-> toks]

ErrorOnLine1 == [line |-> <<1>>, message |-> "unused var", severity |-> "error"]
WarningOnLine2 == [line |-> <<2>>, message |-> Undefined, severity |-> "warning"]

DiagReplies ==
    { Failed,
      Text(<<Tok("word"), Tok("ws"), Tok("word")>>),
      Text(Bare(<<>>)),
      Text(Fenced(<<ErrorOnLine1>>)),
      Text(Bare(<<WarningOnLine2, ErrorOnLine1, ErrorOnLine1>>)) }

(***************************************************************************)
(* The state.                                                              *)
(***************************************************************************)
VARIABLES
    pc,           \* "system", or the pure function under check and its stage
    pin,          \* the input of the pure function under check
    pout,         \* its result
    apiKey,       \* the configured codx.apiKey
    globalState,  \* the persisted 'codx.selectedModel', or Undefined
    openDocs,     \* vscode.workspace.textDocuments at activation, in order
    phase,        \* "init", "active", or "aborted" (activate returned early)
    currentModel, \* state.currentModel
    models,       \* state.models (keys in insertion order)
    clients,      \* state.clients (keys in insertion order)
    registered,   \* the commands, providers and listeners registered
    shown,        \* the messages shown to the user
    docs,         \* each document's version and text
    now,          \* the clock, in ms
    timers,       \* the runtime's pending timers
    timeout,      \* each debounce closure's timeout variable (a timer handle)
    calls,        \* history: the invocations of the debounced wrappers
    runs,         \* history: the runs of the wrapped handlers
    inflight,     \* the model requests dispatched and not yet answered
    diagnostics,  \* state.diagnostics: each document's diagnostic set
    diagFrom,     \* history: the version of the text the set was computed from
    diagNewest,   \* history: the newest version a set was computed from
    diagIds,      \* the identity of each Diagnostic object of each set
    unhandled,    \* whether an exception escaped a handler
    console,      \* the kinds of message logged with console.error
    activeEditor, \* vscode.window.activeTextEditor's document, or Undefined
    selection,    \* each editor's selection: "empty" or "line1"
    ninv,         \* the user events and provider calls so far
    requests,     \* the model requests of commands and providers in flight
    panels,       \* the webview panels created
    decorations,  \* each editor's suggestion decorations
    posted,       \* the messages posted to the chat webview, in order
    received,     \* the messages the chat webviews have sent to the host, in order
    sending,      \* the chat panels whose send button is disabled
    notifications,\* the notifications of commands, each with its invocation
    prompts,      \* the model recommendations shown and not yet answered
    disableModelRecommendations  \* the persisted 'codx.disableModelRecommendations'

vars == <<pc, pin, pout, apiKey, globalState, openDocs, phase, currentModel,
          models, clients, registered, shown, docs, now, timers, timeout,
          calls, runs, inflight, diagnostics, diagFrom, diagNewest, diagIds,
          unhandled, console, activeEditor, selection, ninv, requests, panels, decorations,
          posted, received, sending, notifications, prompts,
          disableModelRecommendations>>

\* the state of the editors, commands, providers and panels
cmdVars == <<activeEditor, selection, ninv, requests, panels, decorations,
             posted, received, sending, notifications, prompts,
          disableModelRecommendations>>

NoValue == [none |-> TRUE]

Triggers == {"diagnostics", "suggestion"}

\* the wait each debounced wrapper was created with
Wait(trig) == IF trig = "diagnostics" THEN DiagnosticsWait ELSE SuggestWait

\* what activate registers
Features ==
    { "codx.selectModel", "completionProvider", "onDidChangeTextEditorSelection",
      "codx.refactorCode", "onDidChangeTextDocument", "codx.explainCode",
      "codx.formatCode", "codeActionProvider", "codx.fixCode",
      "codx.askWithFileContext", "codx.openChat", "codx.compareModels",
      "codx.showModelInfo", "hoverProvider", "onDidChangeActiveTextEditor",
      "healthCheckInterval" }

ApiKeyMessage == "MistralAI API key is not configured"
ActiveMessage == "Codx AI Assistant is now active"

\* a wrapper that does not clear the pending timer
clearTimeoutNoop(pending, handle) == pending

\* clearTimeout(handle): no effect when the handle is not pending
clearTimeout(pending, handle) == {t \in pending : t.handle # handle}

\* setTimeout(() => func(...args), wait) at time t
setTimeout(pending, handle, trig, arg, due) ==
    pending \cup {[handle |-> handle, trig |-> trig, arg |-> arg, due |-> due]}

\* a debounce whose wrappers all share one timeout variable
ClosureShared(trig) == "diagnostics"

\* let timeout: each call of debounce(func, wait) has its own, so each
\* wrapper has its own
Closure(trig) == trig

\* a wrapper that keeps one pending call for each argument
debouncePerArgument(deb, trig, arg, t) ==
    LET handle == Len(deb.calls) + 1
        others == {u \in deb.timers : u.trig # trig \/ u.arg # arg}
    IN  [timers |-> setTimeout(others, handle, trig, arg, t + Wait(trig)),
         timeout |-> [deb.timeout EXCEPT ![Closure(trig)] = handle],
         calls |-> Append(deb.calls, [trig |-> trig, arg |-> arg, at |-> t])]

\* one invocation of the wrapper debounce returns, at time t:
\* clearTimeout(timeout); timeout = setTimeout(() => func(...args), wait)
debounce(deb, trig, arg, t) ==
    LET handle == Len(deb.calls) + 1
    IN  [timers |-> setTimeout(clearTimeout(deb.timers, deb.timeout[Closure(trig)]),
                               handle, trig, arg, t + Wait(trig)),
         timeout |-> [deb.timeout EXCEPT ![Closure(trig)] = handle],
         calls |-> Append(deb.calls, [trig |-> trig, arg |-> arg, at |-> t])]

RECURSIVE debounceEach(_, _, _, _)
\* for (const doc of vscode.workspace.textDocuments) await updateDiagnostics(doc)
debounceEach(deb, trig, args, t) ==
    IF Len(args) = 0 THEN deb
    ELSE debounceEach(debounce(deb, trig, Head(args), t), trig, Tail(args), t)

\* activation without the api key check
ApiKeyNeverMissing(key) == FALSE

\* if (!apiKey)
ApiKeyMissing(key) == key = ""

\* the Diagnostic objects the pass of request id creates: new objects, told
\* apart from those of every other pass
NewIds(id, list) == [i \in 1..Len(list) |-> <<id, i>>]

\* a collection that merges the new list into the document's old one
DiagSetAppend(collection, doc, list) ==
    [collection EXCEPT ![doc] = @ \o list]

\* state.diagnostics.set(document.uri, diagnostics)
DiagSet(collection, doc, list) == [collection EXCEPT ![doc] = list]

Deb == [timers |-> timers, timeout |-> timeout, calls |-> calls]

PureVarsIdle == pc = "system" /\ pin = NoValue /\ pout = NoValue

\* the system before activation, for a given configuration
SystemInit(key, stored, open) ==
    /\ apiKey = key
    /\ globalState = stored
    /\ openDocs = open
    /\ phase = "init"
    /\ currentModel = Undefined
    /\ models = <<>>
    /\ clients = <<>>
    /\ registered = {}
    /\ shown = {}
    /\ docs = [d \in Docs |-> [version |-> 1, text |-> InitialText(d)]]
    /\ now = 0
    /\ timers = {}
    /\ timeout = [trig \in Triggers |-> 0]
    /\ calls = <<>>
    /\ runs = <<>>
    /\ inflight = {}
    /\ diagnostics = [d \in Docs |-> <<>>]
    /\ diagFrom = [d \in Docs |-> 0]
    /\ diagNewest = [d \in Docs |-> 0]
    /\ diagIds = [d \in Docs |-> <<>>]
    /\ unhandled = FALSE
    /\ console = {}
    /\ activeEditor = Undefined
    /\ selection = [d \in Docs |-> "empty"]
    /\ ninv = 0
    /\ requests = {}
    /\ panels = {}
    /\ decorations = [d \in Docs |-> <<>>]
    /\ posted = <<>>
    /\ received = <<>>
    /\ sending = {}
    /\ notifications = {}
    /\ prompts = {}
    /\ disableModelRecommendations = FALSE

\* the orders in which documents are open at activation
OpenOrders == {s \in SeqsUpTo(Docs, Cardinality(Docs)) :
                 \A i, j \in 1..Len(s) : i # j => s[i] # s[j]}

Init ==
    /\ PureVarsIdle
    /\ \E key \in {"", "sk-key"}, stored \in StoredSelections,
          open \in OpenOrders :
         SystemInit(key, stored, open)

\* export async function activate(context)
activate ==
    /\ phase = "init"
    /\ IF ApiKeyMissing(apiKey)
       THEN /\ phase' = "aborted"
            /\ shown' = shown \cup {ApiKeyMessage}
            /\ UNCHANGED <<currentModel, models, clients, registered,
                           timers, timeout, calls>>
       ELSE LET after == debounceEach(Deb, "diagnostics", openDocs, now)
            IN  /\ phase' = "active"
                /\ models' = ModelTable
                /\ clients' = ModelTable
                /\ currentModel' = InitialModel(ModelTable, globalState)
                /\ registered' = Features
                /\ timers' = after.timers
                /\ timeout' = after.timeout
                /\ calls' = after.calls
                /\ shown' = shown \cup {ActiveMessage}
    /\ UNCHANGED <<pc, pin, pout, apiKey, globalState, openDocs, docs, now,
                   runs, inflight, diagnostics, diagFrom, diagNewest, unhandled,
                   console>>
    /\ UNCHANGED <<diagIds, cmdVars>>

nEdits == LET total[S \in SUBSET Docs] ==
                  IF S = {} THEN 0
                  ELSE LET d == CHOOSE x \in S : TRUE
                       IN  (docs[d].version - 1) + total[S \ {d}]
          IN  total[Docs]

\* the user edits document d; vscode.workspace.onDidChangeTextDocument(e =>
\* updateDiagnostics(e.document)) runs when the listener is registered
Edit(d) ==
    /\ nEdits < MaxEdits
    /\ \E text \in Texts \ {docs[d].text} :
         docs' = [docs EXCEPT ![d] = [version |-> @.version + 1, text |-> text]]
    /\ IF "onDidChangeTextDocument" \in registered
       THEN LET after == debounce(Deb, "diagnostics", d, now)
            IN  /\ timers' = after.timers
                /\ timeout' = after.timeout
                /\ calls' = after.calls
       ELSE UNCHANGED <<timers, timeout, calls>>
    /\ UNCHANGED <<pc, pin, pout, apiKey, globalState, openDocs, phase,
                   currentModel, models, clients, registered, shown, now, runs,
                   inflight, diagnostics, diagFrom, diagNewest, unhandled, console>>
    /\ UNCHANGED <<diagIds, cmdVars>>

\* time passes
Tick ==
    /\ phase \in {"active", "deactivated"}
    /\ now < MaxTicks * TimeStep
    /\ now' = now + TimeStep
    /\ UNCHANGED <<pc, pin, pout, apiKey, globalState, openDocs, phase,
                   currentModel, models, clients, registered, shown, docs,
                   timers, timeout, calls, runs, inflight, diagnostics,
                   diagFrom, diagNewest, unhandled, console>>
    /\ UNCHANGED <<diagIds, cmdVars>>

\* the runtime may run a timer's callback once its delay has passed
TimerDue(t) == now >= t.due

\* the timer of the diagnostics wrapper fires: the wrapped handler runs up to
\* its await: getCurrentClient(state), then client.invoke([...document.getText()...])
updateDiagnostics(t) ==
    /\ t \in timers
    /\ t.trig = "diagnostics"
    /\ TimerDue(t)
    /\ timers' = timers \ {t}
    /\ runs' = Append(runs, [handle |-> t.handle, arg |-> t.arg])
    /\ LET got == getCurrentClient(currentModel, clients)
       IN  IF got.threw
           THEN /\ unhandled' = TRUE
                /\ UNCHANGED inflight
           ELSE /\ \E reply \in DiagReplies :
                     inflight' = inflight \cup
                         {[kind |-> "diagnostics", id |-> t.handle, doc |-> t.arg,
                           version |-> docs[t.arg].version, model |-> got.client,
                           reply |-> reply]}
                /\ UNCHANGED unhandled
    /\ UNCHANGED <<pc, pin, pout, apiKey, globalState, openDocs, phase,
                   currentModel, models, clients, registered, shown, docs, now,
                   timeout, calls, diagnostics, diagFrom, diagNewest, console>>
    /\ UNCHANGED <<diagIds, cmdVars>>

\* what the handler logs for an outcome: console.error('Diagnostics JSON parse
\* error:', ...) in the inner catch, console.error('Diagnostics error:', ...)
\* in the outer one
Logged(failed, outcome) ==
    IF failed THEN {"Diagnostics error:"}
    ELSE IF outcome.kind = "parseError" THEN {"Diagnostics JSON parse error:"}
    ELSE IF outcome.kind = "threw" THEN {"Diagnostics error:"}
    ELSE {}

\* a handler that tags requests and discards the response of a request older
\* than the one the document's set was last computed from
updateDiagnosticsResumeTagged(r) ==
    /\ r \in inflight
    /\ r.kind = "diagnostics"
    /\ inflight' = inflight \ {r}
    /\ LET outcome == DiagnosticsOutcome(r.reply.content, docs[r.doc].text)
       IN  /\ console' = console \cup Logged(r.reply.failed, outcome)
           /\ IF ~r.reply.failed /\ outcome.kind = "set"
                 /\ r.version >= diagNewest[r.doc]
              THEN /\ diagnostics' = DiagSet(diagnostics, r.doc, outcome.diagnostics)
                   /\ diagFrom' = [diagFrom EXCEPT ![r.doc] = r.version]
                   /\ diagNewest' = [diagNewest EXCEPT ![r.doc] = Max(@, r.version)]
                   /\ diagIds' = [diagIds EXCEPT ![r.doc] = NewIds(r.id, outcome.diagnostics)]
              ELSE UNCHANGED <<diagnostics, diagFrom, diagNewest, diagIds>>
    /\ UNCHANGED <<pc, pin, pout, apiKey, globalState, openDocs, phase,
                   currentModel, models, clients, registered, shown, docs, now,
                   timers, timeout, calls, runs, unhandled>>
    /\ UNCHANGED cmdVars

\* the response to a diagnostics request arrives and the handler resumes
updateDiagnosticsResume(r) ==
    /\ r \in inflight
    /\ r.kind = "diagnostics"
    /\ inflight' = inflight \ {r}
    /\ LET outcome == DiagnosticsOutcome(r.reply.content, docs[r.doc].text)
       IN  /\ console' = console \cup Logged(r.reply.failed, outcome)
           /\ IF ~r.reply.failed /\ outcome.kind = "set"
              THEN /\ diagnostics' = DiagSet(diagnostics, r.doc, outcome.diagnostics)
                   /\ diagFrom' = [diagFrom EXCEPT ![r.doc] = r.version]
                   /\ diagNewest' = [diagNewest EXCEPT ![r.doc] = Max(@, r.version)]
                   /\ diagIds' = [diagIds EXCEPT ![r.doc] = NewIds(r.id, outcome.diagnostics)]
              ELSE UNCHANGED <<diagnostics, diagFrom, diagNewest, diagIds>>
    /\ UNCHANGED <<pc, pin, pout, apiKey, globalState, openDocs, phase,
                   currentModel, models, clients, registered, shown, docs, now,
                   timers, timeout, calls, runs, unhandled>>
    /\ UNCHANGED cmdVars

Next ==
    \/ activate
    \/ \E d \in Docs : Edit(d)
    \/ Tick
    \/ \E t \in timers : updateDiagnostics(t)
    \/ \E r \in inflight : updateDiagnosticsResume(r)

Spec == Init /\ [][Next]_vars

(***************************************************************************)
(* The issue mapper as a pure function of an issue list and a text.        *)
(***************************************************************************)
InitMapper ==
    /\ pc = "mapper"
    /\ pin \in [issues : SeqsUpTo(Issues, MaxIssues), text : AllTexts]
    /\ pout = NoValue
    /\ SystemInit("", Undefined, <<>>)

\* const diagnostics = issues.map(...) on the drawn input
ApplyMapper ==
    /\ pc = "mapper"
    /\ pc' = "mapped"
    /\ pout' = MapIssues(pin.issues, pin.text)
    /\ UNCHANGED <<pin, apiKey, globalState, openDocs, phase, currentModel,
                   models, clients, registered, shown, docs, now, timers,
                   timeout, calls, runs, inflight, diagnostics, diagFrom,
                   diagNewest, unhandled, console>>
    /\ UNCHANGED <<diagIds, cmdVars>>

NextMapper == ApplyMapper

SpecMapper == InitMapper /\ [][NextMapper]_vars

(***************************************************************************)
(* The registry lookups as pure functions of a persisted selection, a      *)
(* current identity, a client table and a compare-models selection.        *)
(***************************************************************************)
\* the longest compare-models selection drawn as an input
MaxSelected == 2

\* client tables: the registered models in any insertion order
ClientTables ==
    {s \in SeqsUpTo({ModelTable[i] : i \in 1..Len(ModelTable)}, Len(ModelTable)) :
       \A i, j \in 1..Len(s) : i # j => s[i] # s[j]}

InitRegistry ==
    /\ pc = "registry"
    /\ pin \in [stored : Identities \cup {Undefined},
                currentModel : Identities,
                clients : ClientTables,
                selected : {s \in SeqsUpTo(Identities, MaxSelected) : Len(s) >= 2}]
    /\ pout = NoValue
    /\ SystemInit("", Undefined, <<>>)

\* the lookups of activate, getCurrentClient and compareModelsCommand on the
\* drawn input
ApplyRegistry ==
    /\ pc = "registry"
    /\ pc' = "looked up"
    /\ pout' = [initial |-> InitialModel(ModelTable, pin.stored),
                current |-> getCurrentClient(pin.currentModel, pin.clients),
                compared |-> compareClients(pin.selected, pin.clients)]
    /\ UNCHANGED <<pin, apiKey, globalState, openDocs, phase, currentModel,
                   models, clients, registered, shown, docs, now, timers,
                   timeout, calls, runs, inflight, diagnostics, diagFrom,
                   diagNewest, unhandled, console>>
    /\ UNCHANGED <<diagIds, cmdVars>>

NextRegistry == ApplyRegistry

SpecRegistry == InitRegistry /\ [][NextRegistry]_vars

(***************************************************************************)
(* A session: the extension activated with a key, the wait of the          *)
(* diagnostics wrapper over, the documents open at activation waiting for  *)
(* their first diagnostics pass.  The user then switches models, invokes   *)
(* commands and moves between editors.                                     *)
(***************************************************************************)
\* the user events and provider calls of a session
MaxEvents == 2

\* editor.document.languageId of the two documents
languageId(d) == IF d = "docA" THEN "typescript" ELSE "markdown"

codeLanguages ==
    { "javascript", "typescript", "python", "java", "cpp", "c", "csharp", "go",
      "rust", "php" }

\* a recommendation of a model that is in no table
recommendModelRetired(language, current) ==
    IF language \in codeLanguages THEN "codestral-2501"
    ELSE IF language \in {"markdown", "plaintext"} THEN RetiredModel
    ELSE current

\* const recommendModel = (languageId) => ...
recommendModel(language, current) ==
    IF language \in codeLanguages THEN "codestral-2501"
    ELSE IF language \in {"markdown", "plaintext"} THEN "mistral-large-latest"
    ELSE current

\* a globalState that loses the update
globalStateUpdateLost(stored, value) == stored

\* context.globalState.update('codx.selectedModel', value): the memento holds
\* the value from the call on
globalStateUpdate(stored, value) == value

\* a notification of invocation id
Note(id, text, model) == [id |-> id, text |-> text, model |-> model]

Panel(kind, id, model) == [kind |-> kind, id |-> id, model |-> model]

\* the session one step before the end of the clock, after an activation with
\* a key at time 0, the user having opened chats chat panels
SessionInit(stored, open, editor, sel, chats) ==
    LET after == debounceEach([timers |-> {}, timeout |-> [trig \in Triggers |-> 0],
                               calls |-> <<>>], "diagnostics", open, 0)
    IN  /\ apiKey = "sk-key"
        /\ globalState = stored
        /\ openDocs = open
        /\ phase = "active"
        /\ currentModel = InitialModel(ModelTable, stored)
        /\ models = ModelTable
        /\ clients = ModelTable
        /\ registered = Features
        /\ shown = {ActiveMessage}
        /\ docs = [d \in Docs |-> [version |-> 1, text |-> InitialText(d)]]
        /\ now = (MaxTicks - 1) * TimeStep
        /\ timers = after.timers
        /\ timeout = after.timeout
        /\ calls = after.calls
        /\ runs = <<>>
        /\ inflight = {}
        /\ diagnostics = [d \in Docs |-> <<>>]
        /\ diagFrom = [d \in Docs |-> 0]
        /\ diagNewest = [d \in Docs |-> 0]
        /\ diagIds = [d \in Docs |-> <<>>]
        /\ unhandled = FALSE
        /\ console = {}
        /\ activeEditor = editor
        /\ selection = [d \in Docs |-> IF d = editor THEN sel ELSE "empty"]
        /\ ninv = chats
        /\ requests = {}
        /\ panels = {Panel("chat", i, InitialModel(ModelTable, stored)) : i \in 1..chats}
        /\ decorations = [d \in Docs |-> <<>>]
        /\ posted = <<>>
    /\ received = <<>>
    /\ sending = {}
        /\ notifications = {}
        /\ prompts = {}
        /\ disableModelRecommendations = FALSE

\* the variables the model switches leave alone
switchFrame ==
    <<pc, pin, pout, apiKey, openDocs, phase, models, clients, registered,
      shown, docs, now, timers, timeout, calls, runs, inflight, diagnostics,
      diagFrom, diagNewest, diagIds, unhandled, console, selection, requests, panels,
      decorations, posted, sending>>

\* codx.selectModel: the quick pick returns the picked model, or undefined
\* when the user dismisses it
selectModelCommand(pick) ==
    /\ phase = "active"
    /\ "codx.selectModel" \in registered
    /\ ninv < MaxEvents
    /\ ninv' = ninv + 1
    /\ IF pick # Undefined
       THEN /\ currentModel' = pick
            /\ globalState' = globalStateUpdate(globalState, pick)
            /\ notifications' = notifications \cup
                                  {Note(ninv + 1, "Switched to", pick)}
       ELSE UNCHANGED <<currentModel, globalState, notifications>>
    /\ UNCHANGED <<activeEditor, prompts, disableModelRecommendations>>
    /\ UNCHANGED switchFrame

\* vscode.window.onDidChangeActiveTextEditor(editor => ...): the user moves to
\* the editor of document e, or closes the last editor
onDidChangeActiveTextEditor(e) ==
    /\ phase = "active"
    /\ "onDidChangeActiveTextEditor" \in registered
    /\ ninv < MaxEvents
    /\ e # activeEditor
    /\ ninv' = ninv + 1
    /\ activeEditor' = e
    /\ IF e # Undefined /\ ~disableModelRecommendations
          /\ recommendModel(languageId(e), currentModel) # currentModel
       THEN LET recommendedModel == recommendModel(languageId(e), currentModel)
                asked == Note(ninv + 1, "might work better", recommendedModel)
            IN  /\ notifications' = notifications \cup {asked}
                /\ prompts' = prompts \cup {asked}
       ELSE UNCHANGED <<notifications, prompts>>
    /\ UNCHANGED <<currentModel, globalState, disableModelRecommendations,
                   received>>
    /\ UNCHANGED switchFrame

\* .then(selection => ...): the user answers a recommendation with 'Switch' or
\* 'Don't ask again', or dismisses it
answerRecommendation(p, answer) ==
    /\ p \in prompts
    /\ prompts' = prompts \ {p}
    /\ IF answer = "Switch"
       THEN /\ currentModel' = p.model
            /\ globalState' = globalStateUpdate(globalState, p.model)
            /\ notifications' = notifications \cup
                                  {Note(p.id, "Switched to", p.model)}
            /\ UNCHANGED disableModelRecommendations
       ELSE IF answer = "Don't ask again"
       THEN /\ disableModelRecommendations' = TRUE
            /\ UNCHANGED <<currentModel, globalState, notifications>>
       ELSE UNCHANGED <<currentModel, globalState, notifications,
                        disableModelRecommendations>>
    /\ UNCHANGED <<activeEditor, ninv, received>>
    /\ UNCHANGED switchFrame

Registered == {ModelTable[i] : i \in 1..Len(ModelTable)}

InitModels ==
    /\ PureVarsIdle
    /\ \E stored \in StoredSelections, editor \in Docs \cup {Undefined} :
         SessionInit(stored, <<>>, editor, "empty", 0)

NextModels ==
    \/ \E pick \in Registered \cup {Undefined} :
         selectModelCommand(pick) /\ UNCHANGED received
    \/ \E e \in Docs \cup {Undefined} : onDidChangeActiveTextEditor(e)
    \/ \E p \in prompts, answer \in {"Switch", "Don't ask again", Undefined} :
         answerRecommendation(p, answer)

SpecModels == InitModels /\ [][NextModels]_vars

(***************************************************************************)
(* Model text of the code commands as a sequence of characters: "fence"    *)
(* (the three backticks of a markdown code fence), "w" (a word character,  *)
(* \w), "nl" (a newline), "sp" (a space) and "p" (any other character).    *)
(***************************************************************************)
Chars == {"fence", "w", "nl", "sp", "p"}

IsSpace(c) == c \in {"nl", "sp"}

Front(s) == SubSeq(s, 1, Len(s) - 1)

Last(s) == s[Len(s)]

RECURSIVE TrimStart(_)
TrimStart(s) ==
    IF s # <<>> /\ IsSpace(Head(s)) THEN TrimStart(Tail(s)) ELSE s

RECURSIVE TrimEnd(_)
TrimEnd(s) ==
    IF s # <<>> /\ IsSpace(Last(s)) THEN TrimEnd(Front(s)) ELSE s

\* String.prototype.trim
Trim(s) == TrimEnd(TrimStart(s))

RECURSIVE SkipWord(_)
\* [\w]* at the start of s: the longest run of word characters
SkipWord(s) == IF s # <<>> /\ Head(s) = "w" THEN SkipWord(Tail(s)) ELSE s

\* an optional c at the start of s
SkipIf(s, c) == IF s # <<>> /\ Head(s) = c THEN Tail(s) ELSE s

\* an optional c at the end of s
DropIf(s, c) == IF s # <<>> /\ Last(s) = c THEN Front(s) ELSE s

\* formatCommand: formattedCode.replace(/^[\w]*\n?/, '').replace(/\n?$/, '')
formatStrip(s) == DropIf(SkipIf(SkipWord(s), "nl"), "nl")

\* fixCommand: fixedCode.replace(/^```[\w]*\n?/, '').replace(/\n?```$/, '')
fixStrip(s) ==
    LET opened == IF s # <<>> /\ Head(s) = "fence"
                  THEN SkipIf(SkipWord(Tail(s)), "nl")
                  ELSE s
    IN  IF opened # <<>> /\ Last(opened) = "fence"
        THEN DropIf(Front(opened), "nl")
        ELSE opened

RECURSIVE Width(_)
\* the length of a text in characters
Width(s) ==
    IF s = <<>> THEN 0
    ELSE (IF Head(s) = "fence" THEN 3 ELSE 1) + Width(Tail(s))

RECURSIVE Lines(_)
\* the line lengths of a text
Lines(s) ==
    LET breaks == {i \in 1..Len(s) : s[i] = "nl"}
    IN  IF breaks = {} THEN <<Width(s)>>
        ELSE <<Width(SubSeq(s, 1, Min(breaks) - 1))>>
                 \o Lines(SubSeq(s, Min(breaks) + 1, Len(s)))

\* builder.replace(range, new) on a range of whole lines first..last; a range
\* past the end of the document is cut to the document
ReplaceLines(text, first, last, new) ==
    LET f == Min({first, Len(text) + 1})
        l == Min({last, Len(text)})
    IN  SubSeq(text, 1, f - 1) \o Lines(new) \o SubSeq(text, l + 1, Len(text))

\* responses to the prompts whose answer is shown, not written
PlainReplies == {Failed, Text(<<"w", "sp", "w">>)}

\* responses to the prompts whose answer is written into the document
CodeReplies ==
    { Failed,
      Text(<<"w", "sp", "w", "nl", "p">>),
      Text(<<"fence", "w", "nl", "w", "sp", "w", "nl", "fence">>) }

(***************************************************************************)
(* The commands and providers that call the model.  A handler runs up to   *)
(* its await in one step (the request is then in flight) and resumes when  *)
(* the response arrives.                                                   *)
(***************************************************************************)
\* the variables no command or provider changes
hostFrame ==
    <<pc, pin, pout, apiKey, globalState, openDocs, phase, currentModel,
      models, clients, registered, shown, inflight, diagFrom, diagNewest,
      prompts, disableModelRecommendations>>

\* the same, for a step that is not a message of a chat webview
idleFrame == <<hostFrame, received, sending>>

\* a command or provider can be invoked
Invocable(feature) ==
    /\ phase = "active"
    /\ feature \in registered
    /\ ninv < MaxEvents

\* the length of document.getText(editor.selection)
SelectedLength(d) == IF selection[d] = "empty" THEN 0 ELSE docs[d].text[1]

\* the range of a selection captured when the handler started
SelectedLast(text, sel) == IF sel = "empty" THEN Len(text) ELSE 1

Request(site, id, doc, sel, target, model, reply) ==
    [site |-> site, id |-> id, doc |-> doc, sel |-> sel, target |-> target,
     model |-> model, reply |-> reply]

\* const client = getCurrentClient(state) outside the try, then
\* await client.invoke([...]) inside it
Dispatch(site, id, doc, sel, target, replies) ==
    LET got == getCurrentClient(currentModel, clients)
    IN  IF got.threw
        THEN /\ unhandled' = TRUE
             /\ UNCHANGED requests
        ELSE /\ \E reply \in replies :
                  requests' = requests \cup
                      {Request(site, id, doc, sel, target, got.client, reply)}
             /\ UNCHANGED unhandled

\* a handler that sends its request again when it has failed
SettledAgain(r) ==
    IF r.reply.failed
    THEN (requests \ {r}) \cup {[r EXCEPT !.reply = Text(<<"w">>)]}
    ELSE requests \ {r}

\* await client.invoke([...]) settles: the request is no longer in flight
Settled(r) == requests \ {r}

\* a catch that logs and does not notify
CaughtSilently(r, log, notice) ==
    /\ console' = console \cup {log}
    /\ UNCHANGED notifications

\* catch (error) { console.error(log, error); showErrorMessage(notice); }
Caught(r, log, notice) ==
    /\ console' = console \cup {log}
    /\ notifications' = notifications \cup {Note(r.id, notice, Undefined)}

\* await editor.edit(builder => builder.replace(...)): the document changes,
\* and onDidChangeTextDocument calls the diagnostics wrapper
editorEdit(d, text) ==
    /\ docs' = [docs EXCEPT ![d] = [version |-> @.version + 1, text |-> text]]
    /\ IF "onDidChangeTextDocument" \in registered
       THEN LET after == debounce(Deb, "diagnostics", d, now)
            IN  /\ timers' = after.timers
                /\ timeout' = after.timeout
                /\ calls' = after.calls
       ELSE UNCHANGED <<timers, timeout, calls>>

\* provideCompletionItems(document, position)
provideCompletionItems(d) ==
    /\ Invocable("completionProvider")
    /\ ninv' = ninv + 1
    /\ Dispatch("completion", ninv + 1, d, "empty", NoValue, PlainReplies)
    /\ UNCHANGED <<docs, now, timers, timeout, calls, runs, diagnostics, diagIds,
                   console, activeEditor, selection, panels, decorations,
                   posted, notifications>>
    /\ UNCHANGED idleFrame

\* the completion response arrives: return [item], or the catch
provideCompletionItemsResume(r) ==
    /\ r \in requests
    /\ r.site = "completion"
    /\ requests' = Settled(r)
    /\ IF r.reply.failed
       THEN Caught(r, "Completion error:", "Failed to generate code completion")
       ELSE UNCHANGED <<console, notifications>>
    /\ UNCHANGED <<docs, now, timers, timeout, calls, runs, diagnostics, diagIds,
                   unhandled, activeEditor, selection, ninv, panels,
                   decorations, posted>>
    /\ UNCHANGED idleFrame

\* vscode.window.onDidChangeTextEditorSelection(e => ...): the user changes the
\* selection of the active editor
onDidChangeTextEditorSelection(sel) ==
    /\ Invocable("onDidChangeTextEditorSelection")
    /\ activeEditor # Undefined
    /\ sel # selection[activeEditor]
    /\ ninv' = ninv + 1
    /\ selection' = [selection EXCEPT ![activeEditor] = sel]
    /\ IF sel # "empty" /\ docs[activeEditor].text[1] > 0
       THEN LET after == debounce(Deb, "suggestion", activeEditor, now)
            IN  /\ timers' = after.timers
                /\ timeout' = after.timeout
                /\ calls' = after.calls
                /\ UNCHANGED decorations
       ELSE /\ decorations' = [decorations EXCEPT ![activeEditor] = <<>>]
            /\ UNCHANGED <<timers, timeout, calls>>
    /\ UNCHANGED <<docs, now, runs, diagnostics, diagIds, unhandled, console,
                   activeEditor, requests, panels, posted, notifications>>
    /\ UNCHANGED idleFrame

\* the timer of the suggestion wrapper fires: provideCodeSuggestions(editor)
\* runs up to its await
provideCodeSuggestions(t) ==
    /\ t \in timers
    /\ t.trig = "suggestion"
    /\ TimerDue(t)
    /\ timers' = timers \ {t}
    /\ runs' = Append(runs, [handle |-> t.handle, arg |-> t.arg])
    /\ IF SelectedLength(t.arg) = 0
       THEN /\ decorations' = [decorations EXCEPT ![t.arg] = <<>>]
            /\ UNCHANGED <<requests, unhandled>>
       ELSE /\ Dispatch("suggestion", t.handle, t.arg, selection[t.arg], NoValue, PlainReplies)
            /\ UNCHANGED decorations
    /\ UNCHANGED <<docs, now, timeout, calls, diagnostics, diagIds, console,
                   activeEditor, selection, ninv, panels, posted, notifications>>
    /\ UNCHANGED idleFrame

\* the suggestion response arrives: editor.setDecorations(decorationType,
\* [decoration]), or the catch
provideCodeSuggestionsResume(r) ==
    /\ r \in requests
    /\ r.site = "suggestion"
    /\ requests' = Settled(r)
    /\ IF r.reply.failed
       THEN /\ Caught(r, "Suggestion error:", "Failed to generate code suggestion.")
            /\ UNCHANGED decorations
       ELSE /\ decorations' = [decorations EXCEPT ![r.doc] =
                                 <<[range |-> r.sel, model |-> currentModel]>>]
            /\ UNCHANGED <<console, notifications>>
    /\ UNCHANGED <<docs, now, timers, timeout, calls, runs, diagnostics, diagIds,
                   unhandled, activeEditor, selection, ninv, panels, posted>>
    /\ UNCHANGED idleFrame

\* codx.refactorCode
refactorCommand ==
    /\ Invocable("codx.refactorCode")
    /\ ninv' = ninv + 1
    /\ IF activeEditor = Undefined
       THEN UNCHANGED <<requests, unhandled, notifications>>
       ELSE IF SelectedLength(activeEditor) = 0
       THEN /\ notifications' = notifications \cup
                  {Note(ninv + 1, "Please select code to refactor.", Undefined)}
            /\ UNCHANGED <<requests, unhandled>>
       ELSE /\ Dispatch("refactor", ninv + 1, activeEditor, selection[activeEditor],
                        [text |-> SelectedLength(activeEditor)], CodeReplies)
            /\ UNCHANGED notifications
    /\ UNCHANGED <<docs, now, timers, timeout, calls, runs, diagnostics, diagIds,
                   console, activeEditor, selection, panels, decorations, posted>>
    /\ UNCHANGED idleFrame

\* the refactor response arrives: editor.edit replaces the selection the
\* handler started with, or the catch
refactorCommandResume(r) ==
    /\ r \in requests
    /\ r.site = "refactor"
    /\ requests' = Settled(r)
    /\ IF r.reply.failed
       THEN /\ Caught(r, "Refactor error:", "Failed to refactor code.")
            /\ UNCHANGED <<docs, timers, timeout, calls>>
       ELSE /\ editorEdit(r.doc, ReplaceLines(docs[r.doc].text, 1, 1,
                                              Trim(r.reply.content)))
            /\ notifications' = notifications \cup
                  {Note(r.id, "Code refactored successfully", currentModel)}
            /\ UNCHANGED console
    /\ UNCHANGED <<now, runs, diagnostics, diagIds, unhandled, activeEditor,
                   selection, ninv, panels, decorations, posted>>
    /\ UNCHANGED idleFrame

\* codx.explainCode
explainCommand ==
    /\ Invocable("codx.explainCode")
    /\ ninv' = ninv + 1
    /\ IF activeEditor = Undefined
       THEN UNCHANGED <<requests, unhandled>>
       ELSE Dispatch("explain", ninv + 1, activeEditor, selection[activeEditor], NoValue,
                     PlainReplies)
    /\ UNCHANGED <<docs, now, timers, timeout, calls, runs, diagnostics, diagIds,
                   console, activeEditor, selection, panels, decorations,
                   posted, notifications>>
    /\ UNCHANGED idleFrame

\* an explain handler that opens its panel whatever the response
explainShowsAlways(r) == panels \cup {Panel("explain", r.id, currentModel)}

\* vscode.window.createWebviewPanel('codxExplanation', ...) after the await
explainShows(r) ==
    IF r.reply.failed THEN panels
    ELSE panels \cup {Panel("explain", r.id, currentModel)}

\* the explain response arrives: the explanation panel, or the catch
explainCommandResume(r) ==
    /\ r \in requests
    /\ r.site = "explain"
    /\ requests' = Settled(r)
    /\ panels' = explainShows(r)
    /\ IF r.reply.failed
       THEN Caught(r, "Explain error:", "Failed to explain code.")
       ELSE UNCHANGED <<console, notifications>>
    /\ UNCHANGED <<docs, now, timers, timeout, calls, runs, diagnostics, diagIds,
                   unhandled, activeEditor, selection, ninv, decorations, posted>>
    /\ UNCHANGED idleFrame

\* codx.formatCode
formatCommand ==
    /\ Invocable("codx.formatCode")
    /\ ninv' = ninv + 1
    /\ IF activeEditor = Undefined
       THEN UNCHANGED <<requests, unhandled>>
       ELSE Dispatch("format", ninv + 1, activeEditor, selection[activeEditor], NoValue,
                     CodeReplies)
    /\ UNCHANGED <<docs, now, timers, timeout, calls, runs, diagnostics, diagIds,
                   console, activeEditor, selection, panels, decorations,
                   posted, notifications>>
    /\ UNCHANGED idleFrame

\* the format response arrives: the stripped text replaces the selection, or
\* the whole document when the selection was empty; or the catch
formatCommandResume(r) ==
    /\ r \in requests
    /\ r.site = "format"
    /\ requests' = Settled(r)
    /\ IF r.reply.failed
       THEN /\ Caught(r, "Format error:", "Failed to format code.")
            /\ UNCHANGED <<docs, timers, timeout, calls>>
       ELSE /\ editorEdit(r.doc,
                   ReplaceLines(docs[r.doc].text, 1,
                                SelectedLast(docs[r.doc].text, r.sel),
                                formatStrip(Trim(r.reply.content))))
            /\ notifications' = notifications \cup
                  {Note(r.id, "Code formatted successfully", currentModel)}
            /\ UNCHANGED console
    /\ UNCHANGED <<now, runs, diagnostics, diagIds, unhandled, activeEditor,
                   selection, ninv, panels, decorations, posted>>
    /\ UNCHANGED idleFrame

\* codx.fixCode, run from the quick fix the code action provider offers for
\* diagnostic k of document d
fixCommand(d, k) ==
    /\ Invocable("codx.fixCode")
    /\ k \in 1..Len(diagnostics[d])
    /\ ninv' = ninv + 1
    /\ Dispatch("fix", ninv + 1, d, "empty",
                [object |-> diagIds[d][k], line |-> diagnostics[d][k].startLine,
                 diagnostic |-> diagnostics[d][k]],
                CodeReplies)
    /\ UNCHANGED <<docs, now, timers, timeout, calls, runs, diagnostics, diagIds,
                   console, activeEditor, selection, panels, decorations,
                   posted, notifications>>
    /\ UNCHANGED idleFrame

\* diagnostics.filter(d => d !== diagnostic): the objects other than the one
\* the command was given
Others(ids, object) == {i \in 1..Len(ids) : ids[i] # object}

RECURSIVE Keep(_, _, _)
\* the elements of list at the positions in keep, in order
Keep(list, keep, i) ==
    IF i > Len(list) THEN <<>>
    ELSE (IF i \in keep THEN <<list[i]>> ELSE <<>>) \o Keep(list, keep, i + 1)

\* the fix response arrives: when the active editor shows the document, the
\* stripped text replaces the diagnostic's line and the diagnostic leaves the
\* set; or the catch
fixCommandResume(r) ==
    /\ r \in requests
    /\ r.site = "fix"
    /\ requests' = Settled(r)
    /\ IF r.reply.failed
       THEN /\ Caught(r, "Fix error:", "Failed to fix issue: ")
            /\ UNCHANGED <<docs, timers, timeout, calls, diagnostics, diagIds>>
       ELSE IF activeEditor = r.doc
       THEN LET keep == Others(diagIds[r.doc], r.target.object)
            IN  /\ editorEdit(r.doc,
                       ReplaceLines(docs[r.doc].text, r.target.line + 1,
                                    r.target.line + 1,
                                    fixStrip(Trim(r.reply.content))))
                /\ notifications' = notifications \cup
                      {Note(r.id, "Issue fixed by AI", currentModel)}
                /\ diagnostics' = DiagSet(diagnostics, r.doc,
                                          Keep(diagnostics[r.doc], keep, 1))
                /\ diagIds' = [diagIds EXCEPT ![r.doc] = Keep(@, keep, 1)]
                /\ UNCHANGED console
       ELSE UNCHANGED <<docs, timers, timeout, calls, diagnostics, diagIds,
                        console, notifications>>
    /\ UNCHANGED <<now, runs, unhandled, activeEditor, selection, ninv, panels,
                   decorations, posted>>
    /\ UNCHANGED idleFrame

\* codx.askWithFileContext: the user picks files and types a question, or
\* dismisses one of the two dialogs
askWithFileContextCommand(files, question) ==
    /\ Invocable("codx.askWithFileContext")
    /\ ninv' = ninv + 1
    /\ IF ~files \/ ~question
       THEN UNCHANGED <<requests, unhandled>>
       ELSE Dispatch("fileContext", ninv + 1, Undefined, "empty", NoValue, PlainReplies)
    /\ UNCHANGED <<docs, now, timers, timeout, calls, runs, diagnostics, diagIds,
                   console, activeEditor, selection, panels, decorations,
                   posted, notifications>>
    /\ UNCHANGED idleFrame

\* the file-context response arrives: the answer panel, or the catch
askWithFileContextCommandResume(r) ==
    /\ r \in requests
    /\ r.site = "fileContext"
    /\ requests' = Settled(r)
    /\ IF r.reply.failed
       THEN /\ Caught(r, "File context error:",
                      "Failed to process file context query.")
            /\ UNCHANGED panels
       ELSE /\ panels' = panels \cup {Panel("fileContext", r.id, currentModel)}
            /\ UNCHANGED <<console, notifications>>
    /\ UNCHANGED <<docs, now, timers, timeout, calls, runs, diagnostics, diagIds,
                   unhandled, activeEditor, selection, ninv, decorations, posted>>
    /\ UNCHANGED idleFrame

\* codx.openChat
openChatCommand ==
    /\ Invocable("codx.openChat")
    /\ ninv' = ninv + 1
    /\ panels' = panels \cup {Panel("chat", ninv + 1, currentModel)}
    /\ UNCHANGED <<docs, now, timers, timeout, calls, runs, diagnostics, diagIds,
                   unhandled, console, activeEditor, selection, requests,
                   decorations, posted, notifications>>
    /\ UNCHANGED idleFrame

ChatPanels == {p \in panels : p.kind = "chat"}

\* panel.webview.postMessage({type: ...}) in answer to webview message id
Post(panel, type, id, model) ==
    [panel |-> panel, type |-> type, id |-> id, model |-> model]

\* a message of the webview of a chat panel, as the host receives it
Message(panel, command, id) ==
    [panel |-> panel, command |-> command, id |-> id, model |-> currentModel]

\* panel.webview.onDidReceiveMessage(async message => ...) is called
Deliver(p, command) ==
    /\ phase = "active"
    /\ p \in ChatPanels
    /\ ninv' = ninv + 1
    /\ received' = Append(received, Message(p.id, command, ninv + 1))

\* a message of a webview, one of the user events of the session
Receive(p, command) ==
    /\ ninv < MaxEvents
    /\ Deliver(p, command)

\* function ask() of the webview script: the send button is disabled and
\* chat panel p sends { command: 'ask', text }
ask(p) ==
    /\ Deliver(p, "ask")
    /\ sending' = sending \cup {p.id}
    /\ Dispatch("chat", ninv + 1, Undefined, "empty", [panel |-> p.id], PlainReplies)
    /\ UNCHANGED <<docs, now, timers, timeout, calls, runs, diagnostics, diagIds,
                   console, activeEditor, selection, panels, decorations,
                   posted, notifications>>
    /\ UNCHANGED hostFrame

\* an 'ask' of chat panel p, one of the user events of the session
chatAsk(p) ==
    /\ ninv < MaxEvents
    /\ ask(p)

\* a chat handler that answers a failed request with nothing
chatReplyDropped(r) ==
    IF r.reply.failed THEN posted
    ELSE Append(posted, Post(r.target.panel, "response", r.id, currentModel))

\* postMessage({type: 'response', ...}) in the try, postMessage({type:
\* 'error', ...}) in the catch
chatReply(r) ==
    IF r.reply.failed
    THEN Append(posted, Post(r.target.panel, "error", r.id, Undefined))
    ELSE Append(posted, Post(r.target.panel, "response", r.id, currentModel))

\* function resetUI() of the webview script, which its message listener calls
\* for a 'response' and for an 'error': the send button is enabled
resetUI(disabled, panel) == disabled \ {panel}

\* the chat response arrives, and the webview receives the host's answer
chatAskResume(r) ==
    /\ r \in requests
    /\ r.site = "chat"
    /\ requests' = Settled(r)
    /\ posted' = chatReply(r)
    /\ sending' = resetUI(sending, r.target.panel)
    /\ console' = IF r.reply.failed THEN console \cup {"Chat error:"} ELSE console
    /\ UNCHANGED <<docs, now, timers, timeout, calls, runs, diagnostics, diagIds,
                   unhandled, activeEditor, selection, ninv, panels,
                   decorations, notifications>>
    /\ UNCHANGED <<hostFrame, received>>

\* the webview of chat panel p sends { command: 'getCurrentModel' }, as its
\* script does when it loads
chatGetCurrentModel(p) ==
    /\ Receive(p, "getCurrentModel")
    /\ posted' = Append(posted, Post(p.id, "modelUpdate", ninv + 1, currentModel))
    /\ UNCHANGED <<docs, now, timers, timeout, calls, runs, diagnostics, diagIds,
                   unhandled, console, activeEditor, selection, requests,
                   panels, decorations, notifications>>
    /\ UNCHANGED <<hostFrame, sending>>

\* { command: 'switchModel' }: vscode.commands.executeCommand('codx.selectModel')
chatSwitchModel(p, pick) ==
    /\ Receive(p, "switchModel")
    /\ selectModelCommand(pick)

\* { command: 'copyResponse' }
chatCopyResponse(p) ==
    /\ Receive(p, "copyResponse")
    /\ notifications' = notifications \cup
           {Note(ninv + 1, "Response copied to clipboard!", Undefined)}
    /\ UNCHANGED <<docs, now, timers, timeout, calls, runs, diagnostics, diagIds,
                   unhandled, console, activeEditor, selection, requests,
                   panels, decorations, posted>>
    /\ UNCHANGED <<hostFrame, sending>>

\* the texts of the chat answers the user applies
ChatTexts == {<<"w">>, <<"w", "nl", "w", "w">>}

\* { command: 'applyChanges', text }: the text replaces the selection of the
\* active editor, or the whole document when the selection is empty
chatApplyChanges(p, text) ==
    /\ Receive(p, "applyChanges")
    /\ IF activeEditor # Undefined
       THEN /\ editorEdit(activeEditor,
                   ReplaceLines(docs[activeEditor].text, 1,
                                SelectedLast(docs[activeEditor].text,
                                             selection[activeEditor]),
                                text))
            /\ notifications' = notifications \cup
                   {Note(ninv + 1, "Changes applied to file!", Undefined)}
       ELSE /\ notifications' = notifications \cup
                   {Note(ninv + 1, "No active editor to apply changes.", Undefined)}
            /\ UNCHANGED <<docs, timers, timeout, calls>>
    /\ UNCHANGED <<now, runs, diagnostics, diagIds, unhandled, console,
                   activeEditor, selection, requests, panels, decorations,
                   posted>>
    /\ UNCHANGED <<hostFrame, sending>>

\* the lengths of the text under the pointer
HoverLengths == {2, 3}

\* provideHover(document, position), the selection or the word under the
\* pointer being len characters long
provideHover(d, len) ==
    /\ Invocable("hoverProvider")
    /\ ninv' = ninv + 1
    /\ IF activeEditor # d \/ len < 3 \/ len > 200
       THEN UNCHANGED <<requests, console>>
       ELSE LET got == getCurrentClient(currentModel, clients)
            IN  IF got.threw
                THEN /\ console' = console \cup {"Hover error:"}
                     /\ UNCHANGED requests
                ELSE /\ \E reply \in PlainReplies :
                          requests' = requests \cup
                              {Request("hover", ninv + 1, d, selection[d],
                                       NoValue, got.client, reply)}
                     /\ UNCHANGED console
    /\ UNCHANGED <<docs, now, timers, timeout, calls, runs, diagnostics, diagIds,
                   unhandled, activeEditor, selection, panels, decorations,
                   posted, notifications>>
    /\ UNCHANGED idleFrame

\* the hover response arrives: return new vscode.Hover(...), or the catch,
\* which logs and returns
provideHoverResume(r) ==
    /\ r \in requests
    /\ r.site = "hover"
    /\ requests' = Settled(r)
    /\ IF r.reply.failed
       THEN CaughtSilently(r, "Hover error:", Undefined)
       ELSE UNCHANGED <<console, notifications>>
    /\ UNCHANGED <<docs, now, timers, timeout, calls, runs, diagnostics, diagIds,
                   unhandled, activeEditor, selection, ninv, panels,
                   decorations, posted>>
    /\ UNCHANGED idleFrame

\* whether editor.document.getText(editor.selection) ||
\* editor.document.getText() has nothing but white space
NoText(d) ==
    /\ SelectedLength(d) = 0
    /\ \A i \in 1..Len(docs[d].text) : docs[d].text[i] = 0

\* the models picked in the multi-select quick pick, in the order of the list
Picked(S) == SelectSeq(ModelTable, LAMBDA name : name \in S)

\* a loop that stops at the first model whose request has failed
compareStepAborting(id, doc, queue, results, total, others, sent) ==
    IF Len(queue) = 0 \/ (Len(results) > 0 /\ results[Len(results)].error)
    THEN /\ requests' = others
         /\ posted' = Append(sent, [panel |-> id, type |-> "results", id |-> id,
                                    results |-> results])
    ELSE /\ \E reply \in PlainReplies :
              requests' = others \cup
                  {Request("compare", id, doc, "empty",
                           [queue |-> Tail(queue), results |-> results,
                            total |-> total],
                           Head(queue), reply)}
         /\ posted' = sent

\* the loop of compareModelsCommand before the request to the next client of
\* queue: the request, or the 'results' message after the last one
compareStep(id, doc, queue, results, total, others, sent) ==
    IF Len(queue) = 0
    THEN /\ requests' = others
         /\ posted' = Append(sent, [panel |-> id, type |-> "results", id |-> id,
                                    results |-> results])
    ELSE /\ \E reply \in PlainReplies :
              requests' = others \cup
                  {Request("compare", id, doc, "empty",
                           [queue |-> Tail(queue), results |-> results,
                            total |-> total],
                           Head(queue), reply)}
         /\ posted' = sent

\* codx.compareModels: the user picks a task, or dismisses the pick, and
\* picks the set S of models
compareModelsCommand(task, S) ==
    /\ Invocable("codx.compareModels")
    /\ ninv' = ninv + 1
    /\ IF activeEditor = Undefined
       THEN /\ notifications' = notifications \cup
                 {Note(ninv + 1, "Please open a file to compare models.", Undefined)}
            /\ UNCHANGED <<requests, panels, posted>>
       ELSE IF NoText(activeEditor)
       THEN /\ notifications' = notifications \cup
                 {Note(ninv + 1, "Please select some code or ensure the file has content.",
                       Undefined)}
            /\ UNCHANGED <<requests, panels, posted>>
       ELSE IF ~task
       THEN UNCHANGED <<notifications, requests, panels, posted>>
       ELSE IF Len(Picked(S)) < 2
       THEN /\ notifications' = notifications \cup
                 {Note(ninv + 1, "Please select at least 2 models to compare.",
                       Undefined)}
            /\ UNCHANGED <<requests, panels, posted>>
       ELSE /\ panels' = panels \cup {Panel("compare", ninv + 1, Undefined)}
            /\ compareStep(ninv + 1, activeEditor,
                           compareClients(Picked(S), clients), <<>>,
                           Len(Picked(S)), requests, posted)
            /\ UNCHANGED notifications
    /\ UNCHANGED <<docs, now, timers, timeout, calls, runs, diagnostics, diagIds,
                   unhandled, console, activeEditor, selection, decorations>>
    /\ UNCHANGED idleFrame

\* the response of one model arrives: its result or its error joins the
\* results, a 'progress' message is posted and the loop goes on
compareModelsCommandResume(r) ==
    /\ r \in requests
    /\ r.site = "compare"
    /\ LET results == Append(r.target.results,
                             [model |-> r.model, error |-> r.reply.failed])
           progress == [panel |-> r.id, type |-> "progress", id |-> r.id,
                        completed |-> Len(results), total |-> r.target.total]
       IN  compareStep(r.id, r.doc, r.target.queue, results, r.target.total,
                       requests \ {r}, Append(posted, progress))
    /\ UNCHANGED <<docs, now, timers, timeout, calls, runs, diagnostics, diagIds,
                   unhandled, console, activeEditor, selection, ninv, panels,
                   decorations, notifications>>
    /\ UNCHANGED idleFrame

\* the session once the user has opened the chat panel, a document open at
\* activation waiting for its first diagnostics pass
InitSites ==
    /\ PureVarsIdle
    /\ \E editor \in Docs \cup {Undefined}, sel \in {"empty", "line1"} :
         /\ editor = Undefined => sel = "empty"
         /\ SessionInit(Undefined, <<"docB">>, editor, sel, 1)

\* the ten call sites of the model
NextSites ==
    \/ Tick
    \/ \E t \in timers : updateDiagnostics(t)
    \/ \E r \in inflight : updateDiagnosticsResume(r)
    \/ \E d \in Docs : provideCompletionItems(d)
    \/ \E r \in requests : provideCompletionItemsResume(r)
    \/ \E sel \in {"empty", "line1"} : onDidChangeTextEditorSelection(sel)
    \/ \E t \in timers : provideCodeSuggestions(t)
    \/ \E r \in requests : provideCodeSuggestionsResume(r)
    \/ refactorCommand
    \/ \E r \in requests : refactorCommandResume(r)
    \/ explainCommand
    \/ \E r \in requests : explainCommandResume(r)
    \/ formatCommand
    \/ \E r \in requests : formatCommandResume(r)
    \/ \E d \in Docs : \E k \in 1..Len(diagnostics[d]) : fixCommand(d, k)
    \/ \E r \in requests : fixCommandResume(r)
    \/ \E files, question \in BOOLEAN : askWithFileContextCommand(files, question)
    \/ \E r \in requests : askWithFileContextCommandResume(r)
    \/ openChatCommand
    \/ \E p \in panels : chatAsk(p)
    \/ \E r \in requests : chatAskResume(r)
    \/ \E d \in Docs, len \in HoverLengths : provideHover(d, len)
    \/ \E r \in requests : provideHoverResume(r)

SpecSites == InitSites /\ [][NextSites]_vars

\* the sets of models the user picks in the compare-models quick pick
Selections == {S \in SUBSET Registered : Cardinality(S) <= MaxSelected}

\* the call sites together with the compare-models command
NextCommands ==
    \/ NextSites
    \/ \E task \in BOOLEAN, S \in Selections : compareModelsCommand(task, S)
    \/ \E r \in requests : compareModelsCommandResume(r)

SpecCommands == InitSites /\ [][NextCommands]_vars

(***************************************************************************)
(* The explain and refactor commands in a session, next to the diagnostics *)
(* pass of the document open at activation.                                *)
(***************************************************************************)
InitEditing ==
    /\ PureVarsIdle
    /\ \E editor \in Docs \cup {Undefined}, sel \in {"empty", "line1"} :
         /\ editor = Undefined => sel = "empty"
         /\ SessionInit(Undefined, <<"docB">>, editor, sel, 0)

NextEditing ==
    \/ \E t \in timers : updateDiagnostics(t)
    \/ \E r \in inflight : updateDiagnosticsResume(r)
    \/ explainCommand
    \/ \E r \in requests : explainCommandResume(r)
    \/ refactorCommand
    \/ \E r \in requests : refactorCommandResume(r)

SpecEditing == InitEditing /\ [][NextEditing]_vars

(***************************************************************************)
(* The clean-up of a code response as a pure function of its text.         *)
(***************************************************************************)
\* the longest response text drawn as an input
MaxChars == 5

\* formatCommand: response.content.toString().trim(), then the two replaces
formatClean(content) == formatStrip(Trim(content))

\* fixCommand: response.content.toString().trim(), then the two replaces
fixClean(content) == fixStrip(Trim(content))

InitStrip ==
    /\ pc = "strip"
    /\ pin \in SeqsUpTo(Chars, MaxChars)
    /\ pout = NoValue
    /\ SystemInit("", Undefined, <<>>)

\* const cleanCode = ... on the drawn response, on either path
ApplyStrip ==
    /\ pc = "strip"
    /\ pc' = "stripped"
    /\ pout' = [format |-> formatClean(pin), fix |-> fixClean(pin)]
    /\ UNCHANGED <<pin, apiKey, globalState, openDocs, phase, currentModel,
                   models, clients, registered, shown, docs, now, timers,
                   timeout, calls, runs, inflight, diagnostics, diagFrom,
                   diagNewest, unhandled, console>>
    /\ UNCHANGED <<diagIds, cmdVars>>

NextStrip == ApplyStrip

SpecStrip == InitStrip /\ [][NextStrip]_vars

(***************************************************************************)
(* JSON extraction as a pure function of a response that carries an array  *)
(* of issues in a fenced block.                                            *)
(***************************************************************************)
\* the prose before the fence: none, plain words, or words with a bracketed
\* remark
Prefixes ==
    { <<>>,
      <<Tok("word"), Tok("ws")>>,
      <<Tok("word"), Tok("ws"), Tok("lb"), Tok("word"), Tok("rb"), Tok("ws")>> }

\* the prose after the fence
Suffixes == { <<>>, <<Tok("ws"), Tok("word")>> }

\* the response text: prose, the array in a fenced block tagged json, prose
FencedIn(prefix, issues, suffix) ==
    prefix \o <<Tok("fence"), Tok("json"), Tok("ws")>> \o Bare(issues)
           \o <<Tok("ws"), Tok("fence")>> \o suffix

InitExtract ==
    /\ pc = "extract"
    /\ pin \in [prefix : Prefixes, issues : SeqsUpTo(Issues, MaxIssues),
                 suffix : Suffixes]
    /\ pout = NoValue
    /\ SystemInit("", Undefined, <<>>)

\* issues = JSON.parse(jsonMatch ? jsonMatch[1] : responseContent) on the
\* drawn response
ApplyExtract ==
    /\ pc = "extract"
    /\ pc' = "extracted"
    /\ pout' = JsonParse(ExtractJson(FencedIn(pin.prefix, pin.issues, pin.suffix)))
    /\ UNCHANGED <<pin, apiKey, globalState, openDocs, phase, currentModel,
                   models, clients, registered, shown, docs, now, timers,
                   timeout, calls, runs, inflight, diagnostics, diagFrom,
                   diagNewest, unhandled, console>>
    /\ UNCHANGED <<diagIds, cmdVars>>

NextExtract == ApplyExtract

SpecExtract == InitExtract /\ [][NextExtract]_vars

(***************************************************************************)
(* The chat panel: the messages of its webview and the host's answers.     *)
(***************************************************************************)
InitChat ==
    /\ PureVarsIdle
    /\ \E stored \in StoredSelections, editor \in Docs \cup {Undefined},
          sel \in {"empty", "line1"} :
         /\ editor = Undefined => sel = "empty"
         /\ SessionInit(stored, <<"docB">>, editor, sel, 0)

NextChat ==
    \/ openChatCommand
    \/ \E p \in panels : chatAsk(p)
    \/ \E r \in requests : chatAskResume(r)
    \/ \E p \in panels : chatGetCurrentModel(p)
    \/ \E p \in panels, pick \in Registered \cup {Undefined} :
         chatSwitchModel(p, pick)
    \/ \E p \in panels : chatCopyResponse(p)
    \/ \E p \in panels, text \in ChatTexts : chatApplyChanges(p, text)

SpecChat == InitChat /\ [][NextChat]_vars

(***************************************************************************)
(* The two debounced triggers side by side: document changes and selection *)
(* changes of a session, the clock, and both handlers.                     *)
(***************************************************************************)
InitTriggers ==
    /\ PureVarsIdle
    /\ \E editor \in Docs, sel \in {"empty", "line1"} :
         SessionInit(Undefined, <<"docB">>, editor, sel, 0)

NextTriggers ==
    \/ Tick
    \/ \E d \in Docs : Edit(d)
    \/ \E t \in timers : updateDiagnostics(t)
    \/ \E r \in inflight : updateDiagnosticsResume(r)
    \/ \E sel \in {"empty", "line1"} : onDidChangeTextEditorSelection(sel)
    \/ \E t \in timers : provideCodeSuggestions(t)
    \/ \E r \in requests : provideCodeSuggestionsResume(r)

SpecTriggers == InitTriggers /\ [][NextTriggers]_vars

(***************************************************************************)
(* The handlers that show the name of a model after their await, next to   *)
(* a switch of the current model.                                          *)
(***************************************************************************)
InitAttribution ==
    /\ PureVarsIdle
    /\ \E editor \in Docs, sel \in {"empty", "line1"} :
         SessionInit(Undefined, <<>>, editor, sel, 0)

NextAttribution ==
    \/ Tick
    \/ \E pick \in Registered \cup {Undefined} :
         selectModelCommand(pick) /\ UNCHANGED received
    \/ \E sel \in {"empty", "line1"} : onDidChangeTextEditorSelection(sel)
    \/ \E t \in timers : provideCodeSuggestions(t)
    \/ \E r \in requests : provideCodeSuggestionsResume(r)
    \/ refactorCommand
    \/ \E r \in requests : refactorCommandResume(r)
    \/ explainCommand
    \/ \E r \in requests : explainCommandResume(r)

SpecAttribution == InitAttribution /\ [][NextAttribution]_vars

(***************************************************************************)
(* The webview of an open chat panel: the two ways to send a question, and *)
(* the host's answers.                                                     *)
(***************************************************************************)
\* the questions a chat panel sends
MaxAsks == 2

\* the 'ask' messages sent so far
Asks == {i \in 1..Len(received) : received[i].command = "ask"}

\* <button id="sendBtn" onclick="ask()">: a click on a disabled button is no
\* event
clickSend(p) ==
    /\ Cardinality(Asks) < MaxAsks
    /\ p.id \notin sending
    /\ ask(p)

\* promptInput.addEventListener('keydown', ...): Enter without Shift
keydownEnter(p) ==
    /\ Cardinality(Asks) < MaxAsks
    /\ ask(p)

InitWebview ==
    /\ PureVarsIdle
    /\ \E stored \in StoredSelections, editor \in Docs \cup {Undefined} :
         SessionInit(stored, <<>>, editor, "empty", 1)

NextWebview ==
    \/ \E p \in panels : clickSend(p)
    \/ \E p \in panels : keydownEnter(p)
    \/ \E r \in requests : chatAskResume(r)
    \/ \E p \in panels : chatGetCurrentModel(p)

SpecWebview == InitWebview /\ [][NextWebview]_vars

(***************************************************************************)
(* The compare-models command on its own: the picks of the user and the    *)
(* answers of the models.                                                  *)
(***************************************************************************)
InitCompare ==
    /\ PureVarsIdle
    /\ \E editor \in Docs \cup {Undefined}, sel \in {"empty", "line1"} :
         /\ editor = Undefined => sel = "empty"
         /\ SessionInit(Undefined, <<>>, editor, sel, 0)

NextCompare ==
    \/ \E task \in BOOLEAN, S \in Selections : compareModelsCommand(task, S)
    \/ \E r \in requests : compareModelsCommandResume(r)

SpecCompare == InitCompare /\ [][NextCompare]_vars

(***************************************************************************)
(* The quick fix next to the diagnostics passes: a session from its        *)
(* activation with one document open, edits, the clock, and the fix of a   *)
(* reported issue.                                                         *)
(***************************************************************************)
InitFix ==
    /\ PureVarsIdle
    /\ SystemInit("sk-key", Undefined, <<"docB">>)

NextFix ==
    \/ activate
    \/ \E d \in Docs : Edit(d)
    \/ Tick
    \/ \E t \in timers : updateDiagnostics(t)
    \/ \E r \in inflight : updateDiagnosticsResume(r)
    \/ \E e \in Docs \cup {Undefined} : onDidChangeActiveTextEditor(e)
    \/ \E d \in Docs : \E k \in 1..Len(diagnostics[d]) : fixCommand(d, k)
    \/ \E r \in requests : fixCommandResume(r)

SpecFix == InitFix /\ [][NextFix]_vars

(***************************************************************************)
(* Teardown: VS Code disposes context.subscriptions and calls deactivate.  *)
(***************************************************************************)
\* what activate hands to context.subscriptions: everything it registers but
\* the listener of the active editor, which it registers without a
\* disposables array
Subscriptions == Features \ {"onDidChangeActiveTextEditor"}

\* what disposing the subscriptions does to the pending timers: the timers of
\* debounce live in its closures and no disposable refers to them
dispose(pending) == pending

\* the subscriptions are disposed, then export function deactivate() logs
deactivate ==
    /\ phase = "active"
    /\ phase' = "deactivated"
    /\ registered' = registered \ Subscriptions
    /\ timers' = dispose(timers)
    /\ console' = console \cup {"Codx AI Assistant deactivated"}
    /\ UNCHANGED <<pc, pin, pout, apiKey, globalState, openDocs, currentModel,
                   models, clients, shown, docs, now, timeout, calls, runs,
                   inflight, diagnostics, diagFrom, diagNewest, diagIds,
                   unhandled, cmdVars>>

\* the response to a diagnostics request arrives after teardown and
\* state.diagnostics.set(...) on the disposed collection throws into the outer
\* catch
updateDiagnosticsResumeDisposed(r) ==
    /\ phase = "deactivated"
    /\ r \in inflight
    /\ r.kind = "diagnostics"
    /\ inflight' = inflight \ {r}
    /\ LET outcome == DiagnosticsOutcome(r.reply.content, docs[r.doc].text)
       IN  console' = console \cup
               IF ~r.reply.failed /\ outcome.kind = "set"
               THEN {"Diagnostics error:"}
               ELSE Logged(r.reply.failed, outcome)
    /\ UNCHANGED <<pc, pin, pout, apiKey, globalState, openDocs, phase,
                   currentModel, models, clients, registered, shown, docs, now,
                   timers, timeout, calls, runs, unhandled, diagnostics,
                   diagFrom, diagNewest, diagIds, cmdVars>>

InitTeardown ==
    /\ PureVarsIdle
    /\ \E editor \in Docs \cup {Undefined}, sel \in {"empty", "line1"} :
         /\ editor = Undefined => sel = "empty"
         /\ SessionInit(Undefined, <<"docB">>, editor, sel, 0)

\* the two debounced triggers, the clock and the teardown; a disposed
\* diagnostic collection either still takes the set or throws
NextTeardown ==
    \/ Tick
    \/ deactivate
    \/ \E d \in Docs : Edit(d)
    \/ \E t \in timers : updateDiagnostics(t)
    \/ \E r \in inflight : updateDiagnosticsResume(r)
    \/ \E r \in inflight : updateDiagnosticsResumeDisposed(r)
    \/ \E sel \in {"empty", "line1"} : onDidChangeTextEditorSelection(sel)
    \/ \E t \in timers : provideCodeSuggestions(t)
    \/ \E r \in requests : provideCodeSuggestionsResume(r)

SpecTeardown == InitTeardown /\ [][NextTeardown]_vars

(***************************************************************************)
(* Properties of the debounce wrapper.                                     *)
(***************************************************************************)
\* the runs of the handler scheduled by invocation i
RunsOf(i) == {k \in 1..Len(runs) : runs[k].handle = i}

\* the invocations of the same wrapper that follow invocation i
Later(i) == {j \in (i + 1)..Len(calls) : calls[j].trig = calls[i].trig}

\* invocation i was followed, less than the wait later, by the next
\* invocation of the same wrapper
SupersededInBurst(i) ==
    /\ Later(i) # {}
    /\ calls[Min(Later(i))].at - calls[i].at < Wait(calls[i].trig)

\* C1: in a burst of invocations of one debounced wrapper, each less than
\* the wait after the previous one, the handlers of the superseded
\* invocations never run, and the handler of the last one runs at most once,
\* with that invocation's arguments, not before its time plus the wait, and
\* exactly once as soon as no timer of the wrapper is pending.
C1_DebounceBurst ==
    /\ [](/\ \A k \in 1..Len(runs) : runs[k].handle \in 1..Len(calls)
          /\ \A i \in 1..Len(calls) :
               /\ Cardinality(RunsOf(i)) <= 1
               /\ \A k \in RunsOf(i) : runs[k].arg = calls[i].arg
               /\ SupersededInBurst(i) => RunsOf(i) = {}
               /\ (Later(i) = {} /\ ~\E t \in timers : t.trig = calls[i].trig)
                     => Cardinality(RunsOf(i)) = 1)
    /\ [][runs' # runs =>
            /\ Len(runs') = Len(runs) + 1
            /\ LET ran == runs'[Len(runs')].handle
               IN  now >= calls[ran].at + Wait(calls[ran].trig)]_vars

\* a burst of two invocations with different arguments whose last handler ran
C1_Witness ==
    \E i \in 1..Len(calls) :
      /\ SupersededInBurst(i)
      /\ calls[Min(Later(i))].arg # calls[i].arg
      /\ RunsOf(Min(Later(i))) # {}

(***************************************************************************)
(* Properties of the diagnostics pipeline.                                 *)
(***************************************************************************)
\* the diagnostics requests whose response is handled in this step
Resumed == {r \in inflight : r \notin inflight' /\ r.kind = "diagnostics"}

\* what JSON extraction and parsing make of the response to r
ParsedReply(r) == JsonParse(ExtractJson(r.reply.content))

\* the response to r parses to an array whose lines are all lines of the
\* document as it is when the response arrives
Applicable(r) ==
    /\ ~r.reply.failed
    /\ ParsedReply(r).ok
    /\ ParsedReply(r).isArray
    /\ \A i \in 1..Len(ParsedReply(r).issues) :
         ~lineAtThrows(docs[r.doc].text, MappedLine(ParsedReply(r).issues[i]))

\* the mapped issue list of the response to r
MappedReply(r) ==
    [i \in 1..Len(ParsedReply(r).issues) |->
        MapIssue(ParsedReply(r).issues[i], docs[r.doc].text)]

\* C2: a dispatched diagnostics request cannot be cancelled: no edit and no
\* invocation of a debounced wrapper removes a request in flight, and the
\* response of a request older than the one the document's set was last
\* computed from is applied all the same.
C2_StaleResponseApplied ==
    /\ [][(calls' # calls \/ docs' # docs) => inflight \subseteq inflight']_vars
    /\ [][\A r \in Resumed :
            (Applicable(r) /\ r.version < diagNewest[r.doc])
               => /\ diagnostics'[r.doc] = MappedReply(r)
                  /\ diagFrom'[r.doc] = r.version]_vars

\* the response to an older request was applied after the response to a
\* newer one: the set is computed from a text older than the newest analysed
C2_Witness ==
    \E d \in Docs :
      /\ diagFrom[d] > 0
      /\ diagFrom[d] < diagNewest[d]
      /\ diagFrom[d] < docs[d].version

\* C3: when a diagnostics pass for a document is applied, the document's set
\* becomes exactly the mapped issue list of the response, in order, and the
\* sets of all other documents are unchanged.
C3_SetReplaced ==
    [][\A r \in Resumed :
         Applicable(r) =>
            /\ diagnostics'[r.doc] = MappedReply(r)
            /\ \A d \in Docs \ {r.doc} : diagnostics'[d] = diagnostics[d]]_vars

\* a set that holds the same record twice, after an earlier pass for the
\* same document
C3_Witness ==
    \E d \in Docs :
      /\ diagFrom[d] # diagNewest[d]
      /\ Len(diagnostics[d]) = 3
      /\ diagnostics[d][2] = diagnostics[d][3]

\* C4: when the response cannot be parsed as JSON, the update is abandoned:
\* every diagnostic set stays as it was, no exception escapes the handler,
\* and no request or timer is created.
C4_ParseFailureAbandons ==
    [][\A r \in Resumed :
         (~r.reply.failed /\ ~ParsedReply(r).ok) =>
            /\ diagnostics' = diagnostics
            /\ diagFrom' = diagFrom
            /\ unhandled' = unhandled
            /\ inflight' = inflight \ {r}
            /\ timers' = timers
            /\ "Diagnostics JSON parse error:" \in console']_vars

\* a parse failure was logged and a set applied before is still there
C4_Witness ==
    /\ "Diagnostics JSON parse error:" \in console
    /\ \E d \in Docs : diagFrom[d] > 0 /\ diagnostics[d] # <<>>
    /\ inflight = {}

\* the line an issue reports is missing or at most n
ReportsAtMost(issue, n) == issue.line = <<>> \/ issue.line[1] <= n

\* C5: an issue whose reported line is missing or <= 1 is mapped to a range
\* on line 0, and an issue reporting line n >= 1 of the document to a range
\* on line n - 1; a list of such issues is mapped without an exception.
C5_LineClamped ==
    pc = "mapped" =>
      /\ (\A i \in 1..Len(pin.issues) :
            ReportsAtMost(pin.issues[i], lineCount(pin.text)))
           => /\ ~pout.threw
              /\ Len(pout.diagnostics) = Len(pin.issues)
      /\ ~pout.threw =>
           \A i \in 1..Len(pin.issues) :
             /\ ReportsAtMost(pin.issues[i], 1) =>
                  /\ pout.diagnostics[i].startLine = 0
                  /\ pout.diagnostics[i].endLine = 0
             /\ ~ReportsAtMost(pin.issues[i], 0) =>
                  /\ pout.diagnostics[i].startLine = pin.issues[i].line[1] - 1
                  /\ pout.diagnostics[i].endLine = pin.issues[i].line[1] - 1

\* an issue reporting a negative line was mapped to line 0
C5_Witness ==
    /\ pc = "mapped"
    /\ \E i \in 1..Len(pin.issues) :
         /\ pin.issues[i].line = <<-1>>
         /\ ~pout.threw
         /\ pout.diagnostics[i].startLine = 0

\* C6: for every issue list the response parses to, also one with a line
\* number greater than the document's line count, the handler maps one
\* record per issue onto a line of the document and updates the document's
\* diagnostic set.
C6_EveryListMapped ==
    [][\A r \in Resumed :
         (~r.reply.failed /\ ParsedReply(r).ok /\ ParsedReply(r).isArray) =>
            /\ Len(diagnostics'[r.doc]) = Len(ParsedReply(r).issues)
            /\ \A i \in 1..Len(diagnostics'[r.doc]) :
                 ~lineAtThrows(docs[r.doc].text, diagnostics'[r.doc][i].startLine)
            /\ diagFrom'[r.doc] = r.version]_vars

\* C7: the mapped severity is Error exactly when the issue's severity is the
\* string "error"; a missing severity and every other value map to Warning.
C7_DefaultToWarning ==
    (pc = "mapped" /\ ~pout.threw) =>
      \A i \in 1..Len(pin.issues) :
        /\ pout.diagnostics[i].severity \in {"Error", "Warning"}
        /\ pout.diagnostics[i].severity = "Error" <=> pin.issues[i].severity = "error"

\* an issue without a severity was mapped to Warning
C7_Witness ==
    /\ pc = "mapped"
    /\ ~pout.threw
    /\ \E i \in 1..Len(pin.issues) :
         /\ pin.issues[i].severity = Undefined
         /\ pout.diagnostics[i].severity = "Warning"

(***************************************************************************)
(* Properties of activation and of the registry.                           *)
(***************************************************************************)
\* C8: with an empty API key, activation shows an error and registers
\* nothing: no command, provider or listener, no debounced invocation and no
\* timer, so no handler runs and no model request is dispatched.
C8_NoKeyNoFeature ==
    apiKey = "" =>
      /\ phase \in {"init", "aborted"}
      /\ phase = "aborted" => ApiKeyMessage \in shown
      /\ registered = {}
      /\ timers = {}
      /\ calls = <<>>
      /\ runs = <<>>
      /\ inflight = {}
      /\ console = {}

\* activation was aborted and a document was edited afterwards
C8_Witness ==
    /\ phase = "aborted"
    /\ ApiKeyMessage \in shown
    /\ \E d \in Docs : docs[d].version > 1

\* C9: the model current at activation is the persisted identity when it is
\* a key of the registry and the first registry entry otherwise;
\* getCurrentClient returns the client of the current identity, and the
\* first client of the table when the current identity has none.
C9_CurrentModelLookup ==
    pc = "looked up" =>
      /\ pout.initial = IF MapHas(ModelTable, pin.stored) THEN pin.stored
                        ELSE ModelTable[1]
      /\ MapHas(pin.clients, pin.currentModel)
           => pout.current = [threw |-> FALSE, client |-> pin.currentModel]
      /\ (~MapHas(pin.clients, pin.currentModel) /\ Len(pin.clients) > 0)
           => pout.current = [threw |-> FALSE, client |-> pin.clients[1]]

\* an unregistered persisted identity, and a current identity without a
\* client in a table whose first client is not the default model's
C9_Witness ==
    /\ pc = "looked up"
    /\ pin.stored = RetiredModel
    /\ pout.initial = "codestral-2501"
    /\ ~MapHas(pin.clients, pin.currentModel)
    /\ Len(pin.clients) > 0
    /\ pout.current.client = pin.clients[1]
    /\ pin.clients[1] # ModelTable[1]

\* the identities of a selection that have no client
Unregistered(selected, table) ==
    {i \in 1..Len(selected) : ~MapHas(table, selected[i])}

Switched == {n \in notifications' \ notifications : n.text = "Switched to"}

\* C11: a completed model switch, by a select-model pick or an accepted
\* recommendation, leaves the persisted selection equal to the in-memory
\* current model; a step that completes no switch, a dismissed pick among them,
\* changes neither; so the model an activation would start with is always the
\* current one.
C11_SwitchPersists ==
    /\ [](phase = "active" => InitialModel(models, globalState) = currentModel)
    /\ [][/\ \A n \in Switched :
                currentModel' = n.model /\ globalState' = n.model
          /\ Switched = {} => UNCHANGED <<currentModel, globalState>>]_vars

\* a select-model pick and an accepted recommendation have both completed, for
\* different models
C11_Witness ==
    \E asked, accepted, picked \in notifications :
       /\ asked.text = "might work better"
       /\ accepted.text = "Switched to" /\ accepted.id = asked.id
       /\ picked.text = "Switched to" /\ picked.id # asked.id
       /\ picked.model # accepted.model
       /\ globalState = currentModel

(***************************************************************************)
(* Properties of the commands and providers.                               *)
(***************************************************************************)
\* the requests of a site whose response a step handles
Answered(site) == {r \in requests : r \notin requests' /\ r.site = site}

\* an explain invocation has failed
ExplainFailed == \E n \in notifications : n.text = "Failed to explain code."

\* C12: a request failure during an explain invocation creates no panel and
\* changes neither the current model, nor a diagnostic set, nor a document; a
\* refactor invoked after it, on a selection with text, dispatches its own
\* request, and when that request succeeds the text of the response, trimmed,
\* replaces the selection.
C12_ExplainFailureIsolated ==
    [][/\ \A r \in Answered("explain") :
             r.reply.failed =>
                 /\ panels' = panels
                 /\ UNCHANGED <<currentModel, diagnostics, docs>>
       /\ ( /\ ExplainFailed
            /\ refactorCommand
            /\ activeEditor # Undefined
            /\ SelectedLength(activeEditor) > 0 )
          => \E q \in requests' \ requests :
                q.site = "refactor" /\ q.id = ninv' /\ q.doc = activeEditor
       /\ \A r \in Answered("refactor") :
             ExplainFailed /\ ~r.reply.failed =>
                 /\ docs'[r.doc].version = docs[r.doc].version + 1
                 /\ docs'[r.doc].text =
                      Lines(Trim(r.reply.content)) \o Tail(docs[r.doc].text)
      ]_vars

\* an explain invocation failed and the refactor invoked after it has applied
\* its edit; no panel exists
C12_Witness ==
    \E failed, applied \in notifications :
       /\ failed.text = "Failed to explain code."
       /\ applied.text = "Code refactored successfully"
       /\ applied.id > failed.id
       /\ panels = {}
       /\ \E d \in Docs : docs[d].version > 1

\* the requests of commands and providers whose failure a step handles
FailedHere == {r \in requests : r \notin requests' /\ r.reply.failed}

\* the sites whose catch calls vscode.window.showErrorMessage
NotifyingSites ==
    {"completion", "suggestion", "refactor", "explain", "format", "fix",
     "fileContext"}

\* the text of that message
FailureNotice(site) ==
    CASE site = "completion" -> "Failed to generate code completion"
      [] site = "suggestion" -> "Failed to generate code suggestion."
      [] site = "refactor" -> "Failed to refactor code."
      [] site = "explain" -> "Failed to explain code."
      [] site = "format" -> "Failed to format code."
      [] site = "fix" -> "Failed to fix issue: "
      [] site = "fileContext" -> "Failed to process file context query."

\* what the catch of a site logs
FailureLog(site) ==
    CASE site = "completion" -> "Completion error:"
      [] site = "suggestion" -> "Suggestion error:"
      [] site = "refactor" -> "Refactor error:"
      [] site = "explain" -> "Explain error:"
      [] site = "format" -> "Format error:"
      [] site = "fix" -> "Fix error:"
      [] site = "fileContext" -> "File context error:"
      [] site = "chat" -> "Chat error:"
      [] site = "hover" -> "Hover error:"

\* C13 as stated: a request failure at any call site is shown to the user (a
\* notification, or for the chat a message in its panel) and leaves document
\* texts and diagnostic sets unchanged.
C13_EveryFailureNotified ==
    [][/\ \A r \in FailedHere :
             /\ \/ \E n \in notifications' \ notifications : n.id = r.id
                \/ posted' # posted
             /\ UNCHANGED <<docs, diagnostics>>
       /\ \A r \in Resumed :
             r.reply.failed =>
                 /\ notifications' # notifications \/ shown' # shown
                 /\ UNCHANGED <<docs, diagnostics>>
      ]_vars

\* C13, amended: a request failure is caught and logged at its call site.
\* Completion, suggestion, refactor, explain, format, fix and file-context
\* show an error notification; the chat posts an 'error' message to its panel
\* and shows no notification; hover and diagnostics only log.  At every site
\* the invocation ends there: nothing else in flight, no timer, no document,
\* diagnostic set, panel, decoration or current model changes.
C13_FailureCaughtAtSite ==
    [][/\ \A r \in FailedHere :
             /\ FailureLog(r.site) \in console'
             /\ r.site \in NotifyingSites =>
                    /\ notifications' = notifications \cup
                           {Note(r.id, FailureNotice(r.site), Undefined)}
                    /\ posted' = posted
             /\ r.site = "chat" =>
                    /\ posted' = Append(posted, Post(r.target.panel, "error",
                                                     r.id, Undefined))
                    /\ notifications' = notifications
             /\ r.site = "hover" =>
                    /\ notifications' = notifications
                    /\ posted' = posted
             /\ requests' = requests \ {r}
             /\ UNCHANGED <<inflight, timers, docs, diagnostics, panels,
                            decorations, currentModel, shown>>
       /\ \A r \in Resumed :
             r.reply.failed =>
                 /\ "Diagnostics error:" \in console'
                 /\ inflight' = inflight \ {r}
                 /\ UNCHANGED <<notifications, shown, posted, requests, timers,
                                docs, diagnostics, panels, decorations,
                                currentModel>>
      ]_vars

\* the diagnostics request has failed without a notification and a refactor
\* request has failed with one; the document is as it was
C13_Witness ==
    /\ "Diagnostics error:" \in console
    /\ inflight = {}
    /\ \E n \in notifications : n.text = "Failed to refactor code."
    /\ Cardinality(notifications) = 1
    /\ \A d \in Docs : docs[d].version = 1 /\ diagnostics[d] = <<>>

\* the active editor has no selected text
NoSelection == activeEditor # Undefined /\ SelectedLength(activeEditor) = 0

\* C14 as stated: refactor, explain, format and compare-models, invoked with
\* no active editor, and refactor invoked with no selected text, notify the
\* user and do nothing else: no request, no change to a document, a diagnostic
\* set or a panel.
C14_NoTargetNotified ==
    [][( \/ /\ activeEditor = Undefined
            /\ \/ refactorCommand
               \/ explainCommand
               \/ formatCommand
               \/ \E task \in BOOLEAN, S \in Selections :
                     compareModelsCommand(task, S)
         \/ NoSelection /\ refactorCommand )
       => /\ \E n \in notifications' \ notifications : n.id = ninv'
          /\ UNCHANGED <<requests, docs, diagnostics, panels>>
      ]_vars

\* the handler run a step starts
Fired == IF Len(runs') = Len(runs) + 1 THEN {runs'[Len(runs')].handle} ELSE {}

\* the models a compare-models run has had an answer from
Compared(r) ==
    {r.model} \cup {r.target.results[i].model : i \in 1..Len(r.target.results)}

\* the diagnostics response a step handles has no list to apply
Malformed(r) ==
    DiagnosticsOutcome(r.reply.content, docs[r.doc].text).kind # "set"

C15_TeardownCancels ==
    [][phase = "deactivated" =>
          /\ runs' = runs
          /\ inflight' \subseteq inflight
          /\ requests' \subseteq requests
      ]_vars

\* the messages posted in answer to webview message m
Replies(m) == {j \in 1..Len(posted) : posted[j].id = m.id}

\* the request of ask message m is still in flight
Asking(m) == \E r \in requests : r.site = "chat" /\ r.id = m.id

IsOpening(s) ==
    /\ s # <<>>
    /\ Head(s) = "fence"
    /\ SkipIf(SkipWord(Tail(s)), "nl") = <<>>

\* a fence-closing marker, with the line break before it
IsClosing(s) == s \in {<<"fence">>, <<"nl", "fence">>}

\* out is text less, at most, an opening marker at its start and a closing
\* marker at its end
StrippedOf(text, out) ==
    \E i \in 0..Len(text), j \in 0..Len(text) :
       /\ i <= j
       /\ SubSeq(text, i + 1, j) = out
       /\ i = 0 \/ IsOpening(SubSeq(text, 1, i))
       /\ j = Len(text) \/ IsClosing(SubSeq(text, j + 1, Len(text)))

\* text carries no fence
NoFence(text) == \A i \in 1..Len(text) : text[i] # "fence"

\* C17 as stated: on the format and on the fix path what is written back is
\* the model's text less at most one leading fence-opening marker and one
\* trailing fence-closing marker, and is that text itself when it carries no
\* fence.
C17_StripsOnlyFences ==
    pc = "stripped" =>
       \A out \in {pout.format, pout.fix} :
          /\ StrippedOf(Trim(pin), out)
          /\ NoFence(pin) => out = Trim(pin)

\* text has no fence-opening marker at its start and no fence-closing marker
\* at its end
Unfenced(text) ==
    LET t == Trim(text)
    IN  t = <<>> \/ (Head(t) # "fence" /\ Last(t) # "fence")

\* C18 as stated: on unfenced text, cleaning the cleaned text again gives the
\* cleaned text, on the format path and on the fix path.
C18_StripIdempotent ==
    pc = "stripped" /\ Unfenced(pin) =>
       /\ formatClean(pout.format) = pout.format
       /\ fixClean(pout.fix) = pout.fix

\* C19 as stated: from a response that carries a valid JSON array of issues in
\* a fenced block, with or without prose before and after the fence, the
\* extraction step yields that array, one issue per element.
C19_ExtractRecoversArray ==
    pc = "extracted" =>
       /\ pout.ok
       /\ pout.isArray
       /\ pout.issues = pin.issues

\* the trigger a step invokes, if it invokes one
Invoked ==
    IF Len(calls') = Len(calls) + 1 THEN {calls'[Len(calls')].trig} ELSE {}

\* C21: a pending call of one trigger goes away only when it fires or when
\* its own trigger is invoked again, and a step adds a pending call only for
\* the trigger it invokes; so an invocation of the suggestion trigger leaves
\* a pending diagnostics call as it is, handle, argument and due time, and an
\* invocation of the diagnostics trigger leaves a pending suggestion call as
\* it is.
C21_TriggersIndependent ==
    [][/\ \A t \in timers \ timers' : t.handle \in Fired \/ t.trig \in Invoked
       /\ \A t \in timers' \ timers : t.trig \in Invoked
       /\ \A trig \in Triggers \ Invoked : timeout'[trig] = timeout[trig]
      ]_vars

\* a suggestion call was scheduled while a diagnostics call was pending, and
\* both are pending
C21_Witness ==
    \E t \in timers, u \in timers :
       /\ t.trig = "diagnostics"
       /\ u.trig = "suggestion"
       /\ u.handle > t.handle

\* C22: in every state of an activated session the model and client tables
\* are the registry they were built from, the current model is a key of
\* both, and getCurrentClient returns the client of the current model
\* without its fallback and without throwing.
C22_CurrentModelRegistered ==
    phase = "active" =>
       /\ models = ModelTable
       /\ clients = ModelTable
       /\ MapHas(models, currentModel)
       /\ MapGet(clients, currentModel) = currentModel
       /\ getCurrentClient(currentModel, clients)
             = [threw |-> FALSE, client |-> currentModel]

\* the user has moved to a markdown document and accepted the model
\* recommended for it, which is now the current model
C22_Witness ==
    /\ phase = "active"
    /\ activeEditor # Undefined
    /\ languageId(activeEditor) = "markdown"
    /\ currentModel = "mistral-large-latest"
    /\ \E n \in notifications :
          n.text = "Switched to" /\ n.model = currentModel
    /\ \E n \in notifications : n.text = "might work better"

\* invocation i of the diagnostics wrapper was made for a document change
EditCall(i) == i > Len(openDocs) /\ calls[i].trig = "diagnostics"

\* the document of invocation i has not changed since
LastChange(i) == \A k \in Later(i) : calls[k].arg # calls[i].arg

\* C23: when a change of document A is followed, less than the wait later, by
\* a change of another document B, the analysis scheduled for A never runs
\* and the one scheduled for B is the one that can; as long as A does not
\* change again no request is made for A's text as it is and A's set is not
\* computed from it.
C23_OnePendingForAllDocuments ==
    \A i \in 1..Len(calls) :
       (/\ EditCall(i)
        /\ SupersededInBurst(i)
        /\ calls[Min(Later(i))].arg # calls[i].arg)
       => /\ RunsOf(i) = {}
          /\ \A t \in timers : t.handle # i
          /\ \A k \in RunsOf(Min(Later(i))) : runs[k].arg = calls[Min(Later(i))].arg
          /\ LastChange(i) =>
                /\ diagFrom[calls[i].arg] < docs[calls[i].arg].version
                /\ \A r \in inflight :
                      r.doc = calls[i].arg => r.version < docs[r.doc].version

\* document A changed, document B changed less than the wait later, B's
\* analysis was applied to B's set and A's set is older than A's text
C23_Witness ==
    \E i \in 1..Len(calls) :
       /\ EditCall(i)
       /\ SupersededInBurst(i)
       /\ LastChange(i)
       /\ LET a == calls[i].arg
              b == calls[Min(Later(i))].arg
          IN  /\ a # b
              /\ diagFrom[b] = docs[b].version
              /\ diagFrom[a] < docs[a].version
              /\ timers = {}
              /\ inflight = {}

\* C24 as stated, in the form a finite run can refute: in an activated
\* session with no call of the diagnostics wrapper pending, the analysis has
\* run for each of the documents that were open at activation.
C24_InitialAnalysisOfEach ==
    (/\ phase = "active"
     /\ timers = {})
    => \A i \in 1..Len(openDocs) :
          \E k \in 1..Len(runs) : runs[k].arg = openDocs[i]

\* the requests whose response arrives in this step
Arrived == requests \ requests'

\* C25 as stated: when the response of a refactor, explain or suggestion
\* request arrives, the model named in the success message, the panel title
\* or the decoration is the model whose client was sent the request
C25_NameOfProducingModel ==
    [][\A r \in Arrived : ~r.reply.failed =>
          /\ r.site = "refactor" =>
                \A n \in notifications' \ notifications : n.model = r.model
          /\ r.site = "explain" =>
                \A p \in panels' \ panels : p.model = r.model
          /\ r.site = "suggestion" =>
                \A i \in 1..Len(decorations'[r.doc]) :
                    decorations'[r.doc][i].model = r.model]_vars

\* the questions of chat panel p the host has not answered yet
Outstanding(p) == {r \in requests : r.site = "chat" /\ r.target.panel = p.id}

\* C26 as stated: a chat panel has at most one 'ask' outstanding
C26_OneAskOutstanding ==
    \A p \in ChatPanels : Cardinality(Outstanding(p)) <= 1

\* the text at the range builder.replace(selection, ...) replaces when the
\* response of refactor request r arrives
Replaced(r) == docs[r.doc].text[1]

\* C27 as stated: when the response of a refactor request arrives, the text
\* that is replaced is the text that was placed in the prompt
C27_RefactorReplacesWhatItSent ==
    [][\A r \in Arrived :
          (r.site = "refactor" /\ ~r.reply.failed) =>
              Replaced(r) = r.target.text]_vars

\* the requests of compare-models run id in flight
Comparing(id) == {r \in requests : r.site = "compare" /\ r.id = id}

\* the messages posted to the panel of compare-models run id, in order
ComparePosts(id) ==
    SelectSeq(posted, LAMBDA m : m.id = id /\ m.type \in {"progress", "results"})

\* the models of a list of result entries, in order
EntryModels(results) == [i \in 1..Len(results) |-> results[i].model]

\* the models of the run of request r: answered, asked, and still to ask
Plan(r) == EntryModels(r.target.results) \o <<r.model>> \o r.target.queue

\* whether list names models of the quick pick, each once, in its order
InPickOrder(list) ==
    \E S \in SUBSET Registered : list = Picked(S)

\* the entries of the 'results' messages of run id the step posts
ResultsPosted(id) ==
    {posted'[i].results : i \in {j \in (Len(posted) + 1)..Len(posted') :
                                    /\ posted'[j].type = "results"
                                    /\ posted'[j].id = id}}

\* C28: a compare-models run has at least 2 selected models and one request
\* in flight at a time, for the selected models in the order of the pick; the
\* answer of a model adds one entry, an error entry when the request failed,
\* and the run goes on to the next model; the panel is posted one 'progress'
\* message for each entry, numbered 1, 2, ... with the number selected as
\* total, and then one 'results' message with one entry for each selected
\* model, after which nothing more.
C28_CompareRun ==
    /\ [](\A p \in panels : p.kind = "compare" =>
            LET msgs == ComparePosts(p.id)
            IN  /\ Cardinality(Comparing(p.id)) <= 1
                /\ \A r \in Comparing(p.id) :
                      /\ r.target.total >= 2
                      /\ Len(Plan(r)) = r.target.total
                      /\ InPickOrder(Plan(r))
                      /\ Len(msgs) = Len(r.target.results)
                /\ \A i \in 1..Len(msgs) :
                      IF msgs[i].type = "progress"
                      THEN /\ msgs[i].completed = i
                           /\ msgs[i].completed <= msgs[i].total
                           /\ msgs[i].total >= 2
                      ELSE /\ i = Len(msgs)
                           /\ Comparing(p.id) = {}
                           /\ Len(msgs[i].results) = i - 1
                           /\ i > 1 /\ msgs[i - 1].total = i - 1
                           /\ InPickOrder(EntryModels(msgs[i].results))
                /\ Comparing(p.id) = {} =>
                      Len(msgs) > 0 /\ msgs[Len(msgs)].type = "results")
    /\ [][\A r \in Arrived : r.site = "compare" =>
            LET entry == [model |-> r.model, error |-> r.reply.failed]
                results == Append(r.target.results, entry)
            IN  /\ Len(posted') >= Len(posted) + 1
                /\ posted'[Len(posted) + 1].type = "progress"
                /\ posted'[Len(posted) + 1].id = r.id
                /\ IF Len(r.target.queue) > 0
                   THEN /\ ResultsPosted(r.id) = {}
                        /\ \E q \in requests' \ requests :
                             /\ q.id = r.id
                             /\ q.target.results = results
                             /\ Plan(q) = Plan(r)
                   ELSE /\ ResultsPosted(r.id) = {results}
                        /\ EntryModels(results) = Plan(r)
                        /\ Comparing(r.id)' = {}]_vars
    /\ [][ninv' = ninv + 1 =>
            \/ \E r \in requests' \ requests : r.target.total >= 2
            \/ /\ requests' = requests
               /\ panels' = panels
               /\ posted' = posted]_vars

\* a run of two models has ended, the first model having failed and the
\* second having answered
C28_Witness ==
    \E i \in 1..Len(posted) :
        /\ posted[i].type = "results"
        /\ Len(posted[i].results) = 2
        /\ posted[i].results[1].error
        /\ ~posted[i].results[2].error
        /\ i >= 3
        /\ posted[i - 1].type = "progress" /\ posted[i - 1].completed = 2

\* list without its element at position i
RemoveAt(list, i) == SubSeq(list, 1, i - 1) \o SubSeq(list, i + 1, Len(list))

\* the positions in the set of r's document of the diagnostic r was given
Reported(r) ==
    {i \in 1..Len(diagnostics[r.doc]) :
        diagnostics[r.doc][i] = r.target.diagnostic}

\* C29 as stated: when the response of a fix request arrives and the active
\* editor shows the document, the line of the diagnostic is replaced and the
\* document's set loses that diagnostic and nothing else, whether or not a
\* diagnostics pass has replaced the set since the request was sent; with
\* another active editor or none, no text and no set changes
C29_FixRemovesItsDiagnostic ==
    [][\A r \in Arrived : (r.site = "fix" /\ ~r.reply.failed) =>
          IF activeEditor = r.doc
          THEN /\ docs'[r.doc].text =
                     ReplaceLines(docs[r.doc].text, r.target.line + 1,
                                  r.target.line + 1,
                                  fixStrip(Trim(r.reply.content)))
               /\ \A d \in Docs \ {r.doc} :
                     docs'[d] = docs[d] /\ diagnostics'[d] = diagnostics[d]
               /\ IF Reported(r) = {}
                  THEN diagnostics'[r.doc] = diagnostics[r.doc]
                  ELSE \E i \in Reported(r) :
                          diagnostics'[r.doc] = RemoveAt(diagnostics[r.doc], i)
          ELSE /\ docs' = docs
               /\ diagnostics' = diagnostics]_vars

\* C30 as stated: an editor whose selection is empty shows no suggestion
\* decoration
C30_NoDecorationWithoutSelection ==
    \A d \in Docs : selection[d] = "empty" => decorations[d] = <<>>

==========================================================================
